---- MODULE Spec2Model ----
(***************************************************************************)
(* A model of the ramalama command-line control plane: the rm, list and    *)
(* serve commands, the OCI transport and the router enumeration.           *)
(*                                                                         *)
(* Strings are sequences of one-character strings, so that the string      *)
(* operations of the code (startswith, "in", slicing, replace, join) are   *)
(* computed as the code computes them.                                     *)
(***************************************************************************)
EXTENDS Integers, Sequences, FiniteSets, TLC

VARIABLES
    store,      \* the model store on disk: the set of ref entries
    blobs,      \* the blob files on disk: a set of <<root, blob file name>>
    engine,     \* the container engine's storage: <<name, kind>> -> state
    last        \* what the last command did (its arguments and its result)

vars == <<store, blobs, engine, last>>

(***************************************************************************)
(* Strings                                                                 *)
(***************************************************************************)
S_hf      == <<"h", "f">>
S_oci     == <<"o", "c", "i">>
S_sep     == <<":", "/", "/">>
S_latest  == <<"l", "a", "t", "e", "s", "t">>
S_a       == <<"a">>
S_b       == <<"b">>
S_o       == <<"o">>
S_p       == <<"p">>
S_t       == <<"t">>
S_colon   == <<":">>
S_dash    == <<"-">>
S_slash   == <<"/">>
S_gguf    == <<".", "g", "g", "u", "f">>
S_json    == <<".", "j", "s", "o", "n">>
S_sha256  == <<"s", "h", "a", "2", "5", "6">>
S_partial == <<" ", "(", "p", "a", "r", "t", "i", "a", "l", ")">>

\* str.startswith
StartsWith(s, p) ==
    /\ Len(p) <= Len(s)
    /\ SubSeq(s, 1, Len(p)) = p

\* the "in" operator on strings
Contains(s, sub) ==
    \E i \in 1..(Len(s) + 1) :
        /\ i + Len(sub) - 1 <= Len(s)
        /\ SubSeq(s, i, i + Len(sub) - 1) = sub

\* str.find, 0 when sub does not occur (positions count from 1)
Find(s, sub) ==
    IF Contains(s, sub)
    THEN CHOOSE i \in 1..(Len(s) + 1) :
            /\ i + Len(sub) - 1 <= Len(s)
            /\ SubSeq(s, i, i + Len(sub) - 1) = sub
            /\ \A j \in 1..(i - 1) : SubSeq(s, j, j + Len(sub) - 1) # sub
    ELSE 0

\* str.replace(old, new), every occurrence, left to right
RECURSIVE Replace(_, _, _)
Replace(s, old, new) ==
    IF s = <<>> \/ old = <<>> THEN s
    ELSE IF StartsWith(s, old)
         THEN new \o Replace(SubSeq(s, Len(old) + 1, Len(s)), old, new)
         ELSE <<s[1]>> \o Replace(Tail(s), old, new)

\* sep.join(parts)
RECURSIVE Join(_, _)
Join(sep, parts) ==
    IF parts = <<>> THEN <<>>
    ELSE IF Len(parts) = 1 THEN parts[1]
    ELSE parts[1] \o sep \o Join(sep, Tail(parts))

\* s.split("/")[-1]
RECURSIVE LastComponent(_)
LastComponent(s) ==
    IF Contains(s, S_slash)
    THEN LastComponent(SubSeq(s, Find(s, S_slash) + 1, Len(s)))
    ELSE s

\* s[:n]
Prefix(s, n) == SubSeq(s, 1, IF n <= Len(s) THEN n ELSE Len(s))

sanitize_filename(filename) == Replace(filename, S_colon, S_dash)

\* the value of a one-element set: Only({ f(x) : x \in {e} }) is f(e), with e
\* evaluated once
Only(S) == CHOOSE x \in S : TRUE

(***************************************************************************)
(* Exceptions and arguments                                                *)
(***************************************************************************)
NoExc == [type |-> "none", names |-> <<>>]
Exc(t, model) == [type |-> t, names |-> <<model>>]

\* the schemes of a model reference (transports.base.MODEL_TYPES)
MODEL_TYPES ==
    { <<"f", "i", "l", "e">>, <<"h", "t", "t", "p", "s">>, <<"h", "t", "t", "p">>,
      S_oci, <<"h", "u", "g", "g", "i", "n", "g", "f", "a", "c", "e">>, S_hf,
      <<"m", "o", "d", "e", "l", "s", "c", "o", "p", "e">>, <<"m", "s">>,
      <<"o", "l", "l", "a", "m", "a">> }

\* the shortname table: exact match only, a reference with "://" is unchanged
ShortnameTable == { <<S_t, S_hf \o S_sep \o S_a>> }

shortnames_resolve(model) ==
    IF Contains(model, S_sep) THEN model
    ELSE IF \E e \in ShortnameTable : e[1] = model
         THEN (CHOOSE e \in ShortnameTable : e[1] = model)[2]
         ELSE model

(***************************************************************************)
(* The container engine and run_cmd                                        *)
(***************************************************************************)
EngineKinds == {"manifest", "image", "artifact"}

EngState(eng, name, kind) ==
    IF <<name, kind>> \in DOMAIN eng THEN eng[<<name, kind>>] ELSE "absent"

\* One engine subcommand that removes an object: exit status 0 and the object
\* gone when it is there; status 1 when it is missing (status 0 with --ignore
\* or --force=True); status 125 when the engine fails on it ("stuck").
EngineRm(cmd, eng) ==
    LET s == EngState(eng, cmd.name, cmd.kind) IN
    IF s = "present"
    THEN [engine |-> [eng EXCEPT ![<<cmd.name, cmd.kind>>] = "absent"], rc |-> 0]
    ELSE IF s = "absent"
         THEN [engine |-> eng, rc |-> IF cmd.lenient THEN 0 ELSE 1]
         ELSE [engine |-> eng, rc |-> 125]

\* run_cmd: subprocess.run(check=True) raises CalledProcessError on a
\* non-zero exit status
run_cmd(cmd, st) ==
    Only({ [st  |-> [st EXCEPT !.engine = r.engine,
                               !.log = Append(@, cmd @@ [rc |-> r.rc])],
            exc |-> IF r.rc = 0 THEN "none" ELSE "CalledProcessError"]
           : r \in {EngineRm(cmd, st.engine)} })

ManifestRm(model) == [sub |-> "manifest rm", kind |-> "manifest", name |-> model, lenient |-> FALSE]
Rmi(model, force) == [sub |-> "rmi", kind |-> "image", name |-> model, lenient |-> force]
ArtifactRm(model, ignore) == [sub |-> "artifact rm", kind |-> "artifact", name |-> model, lenient |-> ignore]

(***************************************************************************)
(* The OCI transport                                                       *)
(***************************************************************************)
\* the name the engine knows the model by: the reference without its scheme
StripScheme(model) ==
    IF Contains(model, S_sep)
    THEN SubSeq(model, Find(model, S_sep) + Len(S_sep), Len(model))
    ELSE model

\* OCI.__init__: the tag is fixed before the base class parses the name;
\* without a container engine the constructor raises ValueError
OCI_init(model, conman) ==
    LET tagged == IF Contains(LastComponent(model), S_colon)
                  THEN model ELSE model \o S_colon \o S_latest
    IN  [model  |-> StripScheme(tagged),
         conman |-> conman,
         exc    |-> IF ~conman THEN "ValueError" ELSE "none"]

\* OCI._rm_artifact
OCI_rm_artifact(self, ignore, st) == run_cmd(ArtifactRm(self.model, ignore), st)

\* OCI.remove with rmi tried first and manifest rm second
OCI_remove_rmi_first(self, args, st) ==
    IF ~self.conman
    THEN [st |-> st, ret |-> FALSE, exc |-> Exc("NotImplementedError", self.model)]
    ELSE
    Only({
      IF r1.exc # "CalledProcessError"
      THEN [st |-> r1.st, ret |-> TRUE, exc |-> NoExc]
      ELSE Only({
        IF r2.exc # "CalledProcessError"
        THEN [st |-> r2.st, ret |-> TRUE, exc |-> NoExc]
        ELSE Only({
          IF r3.exc # "CalledProcessError"
          THEN [st |-> r3.st, ret |-> TRUE, exc |-> NoExc]
          ELSE [st |-> r3.st, ret |-> FALSE, exc |-> Exc("KeyError", self.model)]
          : r3 \in {OCI_rm_artifact(self, args.ignore, r2.st)} })
        : r2 \in {run_cmd(ManifestRm(self.model), r1.st)} })
      : r1 \in {run_cmd(Rmi(self.model, args.ignore), st)} })

\* OCI.remove: manifest rm, else rmi, else artifact rm, else KeyError
OCI_remove(self, args, st) ==
    IF ~self.conman
    THEN [st |-> st, ret |-> FALSE, exc |-> Exc("NotImplementedError", self.model)]
    ELSE
    Only({
      IF r1.exc # "CalledProcessError"
      THEN [st |-> r1.st, ret |-> TRUE, exc |-> NoExc]
      ELSE Only({
        IF r2.exc # "CalledProcessError"
        THEN [st |-> r2.st, ret |-> TRUE, exc |-> NoExc]
        ELSE Only({
          IF r3.exc # "CalledProcessError"
          THEN [st |-> r3.st, ret |-> TRUE, exc |-> NoExc]
          ELSE [st |-> r3.st, ret |-> FALSE, exc |-> Exc("KeyError", self.model)]
          : r3 \in {OCI_rm_artifact(self, args.ignore, r2.st)} })
        : r2 \in {run_cmd(Rmi(self.model, args.ignore), r1.st)} })
      : r1 \in {run_cmd(ManifestRm(self.model), st)} })

(***************************************************************************)
(* The model store                                                         *)
(* A ref entry is [root, tag, files]: the ref file <root>/refs/<tag>.json  *)
(* with its model_files; a file is [hash, type, gguf, is_partial, size,    *)
(* modified]. root is the list of directories below the store's path, the  *)
(* scheme first.                                                           *)
(***************************************************************************)
CanonicalRef(e) ==
    e.root[1] \o S_sep \o Join(S_slash, Tail(e.root)) \o S_colon \o e.tag

BlobsOf(e) == { <<e.root, sanitize_filename(e.files[i].hash)>> : i \in DOMAIN e.files }

\* remove(ref, tag): the ref, its snapshot and the blobs no other ref uses
StoreRemove(e, st) ==
    LET rest == st.store \ {e}
        kept == UNION { BlobsOf(o) : o \in rest }
    IN  [st EXCEPT !.store = rest, !.blobs = @ \ (BlobsOf(e) \ kept)]

\* list_models: canonical reference -> files, for every ref of the store and,
\* with an engine and show_container, every model the engine holds
EngineModels(eng) ==
    { k[1] : k \in { k \in DOMAIN eng : eng[k] # "absent" } }

list_models(st, eng_arg, show_container) ==
    { [name |-> CanonicalRef(e), files |-> e.files] : e \in st.store }
    \cup (IF eng_arg /\ show_container
          THEN { [name |-> S_oci \o S_sep \o n, files |-> <<>>] : n \in EngineModels(st.engine) }
          ELSE {})

\* Transport.remove of a store-backed transport: true if anything was removed.
\* nf is how a missing model is reported: "false" or "KeyError".
Transport_remove(self, args, nf, st) ==
    IF \E e \in st.store : CanonicalRef(e) = self.model
    THEN [st  |-> StoreRemove(CHOOSE e \in st.store : CanonicalRef(e) = self.model, st),
          ret |-> TRUE, exc |-> NoExc]
    ELSE IF nf = "KeyError"
         THEN [st |-> st, ret |-> FALSE, exc |-> Exc("KeyError", self.model)]
         ELSE [st |-> st, ret |-> FALSE, exc |-> NoExc]

\* New: the transport of a reference. A missing tag defaults to latest; a
\* reference without a known scheme is not found.
New(model, args) ==
    IF ~Contains(model, S_sep)
       \/ SubSeq(model, 1, Find(model, S_sep) - 1) \notin MODEL_TYPES
    THEN [kind |-> "none", model |-> model, conman |-> args.engine, exc |-> "KeyError"]
    ELSE IF StartsWith(model, S_oci \o S_sep)
    THEN [kind |-> "oci"] @@ OCI_init(model, args.engine)
    ELSE [kind   |-> "store",
          model  |-> IF Contains(LastComponent(model), S_colon)
                     THEN model ELSE model \o S_colon \o S_latest,
          conman |-> args.engine,
          exc    |-> "none"]

\* m.remove(args), whichever transport m is
Remove(m, args, nf, st) ==
    IF m.kind = "oci" THEN OCI_remove(m, args, st) ELSE Transport_remove(m, args, nf, st)

(***************************************************************************)
(* rm                                                                      *)
(* st is [store, blobs, engine, log, tried]: the disk, the engine, the     *)
(* engine subcommands issued so far, and one record per model the loop of  *)
(* _rm_model has handled (what it was given, and whether the attempt       *)
(* changed the store or the engine's storage).                             *)
(***************************************************************************)
\* _rm_oci_model: any exception is a plain False
rm_oci_model(model, args, st) ==
    Only({ IF m.exc # "none" THEN [st |-> st, ret |-> FALSE]
           ELSE Only({ [st |-> r.st, ret |-> r.exc.type = "none" /\ r.ret]
                       : r \in {OCI_remove(m, args, st)} })
           : m \in {OCI_init(model, args.engine)} })

HasSchemePrefix(model) ==
    \E prefix \in MODEL_TYPES : StartsWith(model, prefix \o S_sep)

\* the except (KeyError, CalledProcessError) clause of _rm_model
rm_handler(e, model, args, st) ==
    IF HasSchemePrefix(model) /\ ~args.ignore
    THEN [st |-> st, how |-> "raise", exc |-> e]
    ELSE Only({ IF o.ret \/ args.ignore
                THEN [st |-> o.st, how |-> "continue", exc |-> NoExc]
                ELSE [st |-> o.st, how |-> "append", exc |-> e]
                : o \in {rm_oci_model(model, args, st)} })

\* One pass of the loop body of _rm_model for the resolved model: what the
\* disk is afterwards and how the pass ends: "continue", "append" (the
\* exception joins the list) or "raise" (the exception leaves _rm_model).
rm_one(model, args, nf, st) ==
    Only({
      IF m.exc = "KeyError" THEN rm_handler(Exc("KeyError", model), model, args, st)
      ELSE IF m.exc # "none" THEN [st |-> st, how |-> "raise", exc |-> Exc(m.exc, model)]
      ELSE Only({
        IF r.exc.type \in {"KeyError", "CalledProcessError"}
        THEN rm_handler(r.exc, model, args, r.st)
        ELSE IF r.exc.type # "none" THEN [st |-> r.st, how |-> "raise", exc |-> r.exc]
        ELSE IF r.ret THEN [st |-> r.st, how |-> "continue", exc |-> NoExc]
        ELSE IF args.ignore
             THEN [st |-> rm_oci_model(model, args, r.st).st, how |-> "continue",
                   exc |-> NoExc]
             ELSE [st |-> r.st, how |-> "continue", exc |-> NoExc]
        : r \in {Remove(m, args, nf, st)} })
      : m \in {New(model, args)} })

Tried(given, before, after, how) ==
    [model   |-> given,
     removed |-> after.store # before.store \/ after.engine # before.engine,
     how     |-> how]

\* _rm_model: the loop over the models, then the report of the exceptions
RECURSIVE rm_loop(_, _, _, _, _)
rm_loop(models, args, nf, st, exceptions) ==
    IF models = <<>>
    THEN IF Len(exceptions) > 0
         THEN [st |-> st, exc |-> exceptions[1], stderr |-> Tail(exceptions)]
         ELSE [st |-> st, exc |-> NoExc, stderr |-> <<>>]
    ELSE
    Only({
      Only({
        IF r.how = "raise"
        THEN [st |-> s2, exc |-> r.exc, stderr |-> <<>>]
        ELSE Only({ rm_loop(Tail(models), args, nf, s2, ex2)
                    : ex2 \in { IF r.how = "append"
                                THEN Append(exceptions, r.exc) ELSE exceptions } })
        : s2 \in { [r.st EXCEPT !.tried = Append(@, Tried(models[1], st, r.st, r.how))] } })
      : r \in {rm_one(shortnames_resolve(models[1]), args, nf, st)} })

rm_model(models, args, nf, st) == rm_loop(models, args, nf, st, <<>>)

\* the loop of rm --all over the listed models
RECURSIVE rm_all_loop(_, _, _, _, _)
rm_all_loop(names, args, nf, st, failed_models) ==
    IF names = <<>>
    THEN IF failed_models # <<>>
         THEN [st |-> st, exc |-> [type |-> "Exception", names |-> failed_models],
               stderr |-> [i \in DOMAIN failed_models |-> Exc("Failed", failed_models[i])]]
         ELSE [st |-> st, exc |-> NoExc, stderr |-> <<>>]
    ELSE
    Only({
      Only({ rm_all_loop(Tail(names), args, nf, r.st, f2)
             : f2 \in { IF r.exc.type # "none"
                        THEN Append(failed_models, names[1]) ELSE failed_models } })
      : r \in {rm_model(<<names[1]>>, args, nf, st)} })

\* rm_cli; order is the order in which the listing's keys are iterated
rm_cli(args, nf, order, st) ==
    IF ~args.all
    THEN IF Len(args.MODEL) = 0
         THEN [st |-> st, exc |-> Exc("IndexError", <<>>), stderr |-> <<>>]
         ELSE rm_model(args.MODEL, args, nf, st)
    ELSE IF Len(args.MODEL) > 0
    THEN [st |-> st, exc |-> Exc("IndexError", <<>>), stderr |-> <<>>]
    ELSE rm_all_loop(order, args, nf, st, <<>>)

(***************************************************************************)
(* list                                                                    *)
(***************************************************************************)
\* the characters of the model, in code point order
Alphabet ==
    <<" ", "(", ")", "-", ".", "/", "2", "5", "6", ":", "a", "b", "c", "e", "f",
      "g", "h", "i", "j", "l", "n", "o", "p", "r", "s", "t", "u">>

Ord(c) == CHOOSE i \in DOMAIN Alphabet : Alphabet[i] = c

\* a < b on strings
RECURSIVE StrLess(_, _)
StrLess(a, b) ==
    IF b = <<>> THEN FALSE
    ELSE IF a = <<>> THEN TRUE
    ELSE IF a[1] = b[1] THEN StrLess(Tail(a), Tail(b))
    ELSE Ord(a[1]) < Ord(b[1])

KeyLess(x, y, field) ==
    IF field = "name" THEN StrLess(x.name, y.name)
    ELSE IF field = "size" THEN x.size < y.size
    ELSE x.modified < y.modified

\* list.sort(key, reverse): stable, also when reversed
RECURSIVE SortInto(_, _, _, _)
SortInto(sorted, rest, field, reverse) ==
    IF rest = <<>> THEN sorted
    ELSE
    LET x == rest[1]
        Before(y) == IF reverse THEN KeyLess(y, x, field) ELSE KeyLess(x, y, field)
        at == IF \E i \in DOMAIN sorted : Before(sorted[i])
              THEN CHOOSE i \in DOMAIN sorted :
                      Before(sorted[i]) /\ \A j \in 1..(i - 1) : ~Before(sorted[j])
              ELSE Len(sorted) + 1
    IN  SortInto(SubSeq(sorted, 1, at - 1) \o <<x>> \o SubSeq(sorted, at, Len(sorted)),
                 Tail(rest), field, reverse)

\* the listing shows the canonical reference
trim_model_name(model) == model

AnyPartial(files) == \E i \in DOMAIN files : files[i].is_partial

RECURSIVE SumSize(_)
SumSize(files) == IF files = <<>> THEN 0 ELSE files[1].size + SumSize(Tail(files))

RECURSIVE LastModified(_)
RECURSIVE list_loop_keeps_partial(_, _)
LastModified(files) ==
    IF files = <<>> THEN 0
    ELSE LET m == LastModified(Tail(files)) IN
         IF files[1].modified > m THEN files[1].modified ELSE m

\* the loop of the listing without the test on --all
list_loop_keeps_partial(items, args) ==
    IF items = <<>> THEN <<>>
    ELSE
    LET files == items[1].files
        is_partially_downloaded == AnyPartial(files)
    IN  << [name     |-> IF is_partially_downloaded
                         THEN trim_model_name(items[1].name) \o S_partial
                         ELSE trim_model_name(items[1].name),
            modified |-> LastModified(files),
            size     |-> SumSize(files)] >>
        \o list_loop_keeps_partial(Tail(items), args)

\* the loop of _list_models_from_store over models.items(), in their order
RECURSIVE list_loop(_, _)
list_loop(items, args) ==
    IF items = <<>> THEN <<>>
    ELSE
    LET files == items[1].files
        is_partially_downloaded == AnyPartial(files)
    IN  IF ~args.all /\ is_partially_downloaded
        THEN list_loop(Tail(items), args)
        ELSE << [name     |-> IF is_partially_downloaded
                              THEN trim_model_name(items[1].name) \o S_partial
                              ELSE trim_model_name(items[1].name),
                 modified |-> LastModified(files),
                 size     |-> SumSize(files)] >>
             \o list_loop(Tail(items), args)

\* _list_models_from_store; items is models.items()
list_models_from_store(items, args) ==
    SortInto(<<>>, list_loop(items, args), args.sort, args.order = "desc")

(***************************************************************************)
(* The files and refs of the runs                                          *)
(***************************************************************************)
Hash(sep, h1, h2) == S_sha256 \o sep \o <<h1, h2>>

File(hash, type, gguf, partial, size, modified) ==
    [hash |-> hash, type |-> type, gguf |-> gguf, is_partial |-> partial,
     size |-> size, modified |-> modified]

G1 == File(Hash(S_colon, "a", "a"), "model", TRUE, FALSE, 4, 1)
G2 == File(Hash(S_colon, "a", "b"), "model", TRUE, FALSE, 2, 3)
P1 == File(Hash(S_colon, "b", "a"), "model", TRUE, TRUE, 1, 2)
\* a multimodal projector, a safetensors model, the shards of a split model
MM == File(Hash(S_colon, "b", "b"), "mmproj", TRUE, FALSE, 1, 1)
ST == File(Hash(S_dash, "c", "a"), "model", FALSE, FALSE, 3, 1)
S1 == File(Hash(S_dash, "a", "a"), "model", TRUE, FALSE, 2, 1)
S2 == File(Hash(S_dash, "a", "b"), "model", TRUE, FALSE, 2, 1)
S3 == File(Hash(S_dash, "a", "c"), "model", TRUE, FALSE, 2, 1)

Entry(root, tag, files) == [root |-> root, tag |-> tag, files |-> files]

RootA == <<S_hf, S_a>>
RootB == <<S_hf, S_b>>
RootC == <<S_hf, <<"c">>>>
RootD == <<S_hf, <<"d">>>>

(***************************************************************************)
(* main: the exit status of a failed command                               *)
(***************************************************************************)
\* the classes an exception class derives from
Ancestors(t) ==
    CASE t = "HTTPError"           -> {"URLError", "OSError", "Exception"}
      [] t = "FileNotFoundError"   -> {"OSError", "Exception"}
      [] t = "PermissionError"     -> {"OSError", "Exception"}
      [] t = "ConnectionError"     -> {"OSError", "Exception"}
      [] t = "TimeoutError"        -> {"OSError", "Exception"}
      [] t = "IndexError"          -> {"LookupError", "Exception"}
      [] t = "KeyError"            -> {"LookupError", "Exception"}
      [] t = "NotImplementedError" -> {"RuntimeError", "Exception"}
      [] t = "TimeoutExpired"      -> {"SubprocessError", "Exception"}
      [] t = "CalledProcessError"  -> {"SubprocessError", "Exception"}
      [] t = "KeyboardInterrupt"   -> {"BaseException"}
      [] t = "URLError"            -> {"OSError", "Exception"}
      [] t = "BrokenPipeError"     -> {"ConnectionError", "OSError", "Exception"}
      [] t = "ConnectionRefusedError" -> {"ConnectionError", "OSError", "Exception"}
      [] t = "JSONDecodeError"     -> {"ValueError", "Exception"}
      [] t = "UnicodeDecodeError"  -> {"UnicodeError", "ValueError", "Exception"}
      [] OTHER                     -> {"Exception"}

IsA(t, c) == t = c \/ c \in Ancestors(t)

\* the except clauses of main with the clause of IOError ahead of the others
main_exit_io_first(exc) ==
    LET t == exc.type IN
    IF t = "none" THEN [code |-> "0", printed |-> FALSE]
    ELSE IF IsA(t, "OSError") THEN [code |-> "EIO", printed |-> TRUE]
    ELSE IF \E c \in {"IndexError", "KeyError", "ValueError", "NoRefFileFound"} : IsA(t, c)
         THEN [code |-> "EINVAL", printed |-> TRUE]
    ELSE IF IsA(t, "NotImplementedError") THEN [code |-> "ENOSYS", printed |-> TRUE]
    ELSE IF IsA(t, "TimeoutExpired") THEN [code |-> "ETIMEDOUT", printed |-> TRUE]
    ELSE IF IsA(t, "CalledProcessError") THEN [code |-> "returncode", printed |-> TRUE]
    ELSE IF IsA(t, "EndianMismatchError") THEN [code |-> "1", printed |-> FALSE]
    ELSE IF IsA(t, "KeyboardInterrupt") THEN [code |-> "0", printed |-> FALSE]
    ELSE IF IsA(t, "ParseError") THEN [code |-> "EINVAL", printed |-> TRUE]
    ELSE IF IsA(t, "NoGGUFModelFileFound") THEN [code |-> "ENOENT", printed |-> TRUE]
    ELSE [code |-> "traceback", printed |-> TRUE]

\* the except clauses of main, first match first; an exception none of them
\* handles leaves main and the interpreter ends with status 1 and a traceback
main_exit(exc) ==
    LET t == exc.type IN
    IF t = "none" THEN [code |-> "0", printed |-> FALSE]
    ELSE IF IsA(t, "HTTPError") THEN [code |-> "EINVAL", printed |-> TRUE]
    ELSE IF IsA(t, "FileNotFoundError") THEN [code |-> "ENOENT", printed |-> TRUE]
    ELSE IF \E c \in {"ConnectionError", "IndexError", "KeyError", "ValueError",
                      "NoRefFileFound"} : IsA(t, c)
         THEN [code |-> "EINVAL", printed |-> TRUE]
    ELSE IF IsA(t, "NotImplementedError") THEN [code |-> "ENOSYS", printed |-> TRUE]
    ELSE IF IsA(t, "TimeoutExpired") THEN [code |-> "ETIMEDOUT", printed |-> TRUE]
    ELSE IF IsA(t, "CalledProcessError") THEN [code |-> "returncode", printed |-> TRUE]
    ELSE IF IsA(t, "EndianMismatchError") THEN [code |-> "1", printed |-> FALSE]
    ELSE IF IsA(t, "KeyboardInterrupt") THEN [code |-> "0", printed |-> FALSE]
    ELSE IF IsA(t, "OSError") THEN [code |-> "EIO", printed |-> TRUE]
    ELSE IF IsA(t, "ParseError") THEN [code |-> "EINVAL", printed |-> TRUE]
    ELSE IF IsA(t, "NoGGUFModelFileFound") THEN [code |-> "ENOENT", printed |-> TRUE]
    ELSE [code |-> "traceback", printed |-> TRUE]

(***************************************************************************)
(* serve MODEL                                                             *)
(***************************************************************************)
NoModel == <<"None">>      \* args.MODEL is None

\* what the registries hold: the store-backed models and the OCI images that
\* a pull can fetch
Registry == { Entry(RootA, S_latest, <<G1>>) }
OciRegistry == { S_o \o S_colon \o S_latest }

\* compute_serving_port: a free port, or no port is free
compute_serving_port(args, env) ==
    IF env.ports = "free" THEN [port |-> "port", exc |-> NoExc]
    ELSE [port |-> "none", exc |-> Exc("OSError", <<>>)]

\* ensure_model_exists: pull if missing
ensure_model_exists(m, args, env, st) ==
    IF m.kind = "oci"
    THEN IF \E k \in {"image", "artifact"} : EngState(st.engine, m.model, k) # "absent"
         THEN [st |-> st, exc |-> NoExc]
         ELSE IF env.net = "up" /\ m.model \in OciRegistry
              THEN [st  |-> [st EXCEPT !.engine = [k \in DOMAIN @ \cup {<<m.model, "image">>} |->
                                 IF k = <<m.model, "image">> THEN "present" ELSE @[k]]],
                    exc |-> NoExc]
              ELSE [st |-> st, exc |-> Exc("CalledProcessError", m.model)]
    ELSE IF \E e \in st.store : CanonicalRef(e) = m.model
         THEN [st |-> st, exc |-> NoExc]
         ELSE IF env.net # "up"
              THEN [st |-> st, exc |-> Exc("ConnectionError", m.model)]
              ELSE IF \E e \in Registry : CanonicalRef(e) = m.model
                   THEN Only({ [st  |-> [st EXCEPT !.store = @ \cup {e},
                                                  !.blobs = @ \cup BlobsOf(e)],
                                exc |-> NoExc]
                               : e \in { e \in Registry : CanonicalRef(e) = m.model } })
                   ELSE [st |-> st, exc |-> Exc("KeyError", m.model)]

\* the try block of serve_cli without ensure_model_exists
serve_try_no_ensure(args, env, st) ==
    Only({
      IF p.exc.type # "none"
      THEN [st |-> st, exc |-> p.exc, model |-> <<>>, steps |-> <<"port">>]
      ELSE Only({
        IF m.exc # "none"
        THEN [st |-> st, exc |-> Exc(m.exc, args.MODEL), model |-> <<>>,
              steps |-> <<"port", "New">>]
        ELSE [st |-> st, exc |-> NoExc, model |-> m, steps |-> <<"port", "New">>]
        : m \in {New(args.MODEL, args)} })
      : p \in {compute_serving_port(args, env)} })

\* the try block of serve_cli: the port, the transport, the model
serve_try(args, env, st) ==
    Only({
      IF p.exc.type # "none"
      THEN [st |-> st, exc |-> p.exc, model |-> <<>>, steps |-> <<"port">>]
      ELSE Only({
        IF m.exc # "none"
        THEN [st |-> st, exc |-> Exc(m.exc, args.MODEL), model |-> <<>>,
              steps |-> <<"port", "New">>]
        ELSE Only({ [st |-> e.st, exc |-> e.exc, model |-> m,
                     steps |-> <<"port", "New", "ensure">>]
                    : e \in {ensure_model_exists(m, args, env, st)} })
        : m \in {New(args.MODEL, args)} })
      : p \in {compute_serving_port(args, env)} })

\* the except KeyError clause without the test on "://"
serve_fallback_any_name(e, args, env, st) ==
    Only({
      IF m.exc # "none"
      THEN [st |-> st, exc |-> e, model |-> <<>>, steps |-> <<"create_oci">>,
            MODEL |-> args.MODEL]
      ELSE Only({
        IF x.exc.type # "none"
        THEN [st |-> x.st, exc |-> e, model |-> <<>>,
              steps |-> <<"create_oci", "ensure_oci">>, MODEL |-> args.MODEL]
        ELSE [st |-> x.st, exc |-> NoExc, model |-> m,
              steps |-> <<"create_oci", "ensure_oci">>,
              MODEL |-> S_oci \o S_sep \o args.MODEL]
        : x \in {ensure_model_exists(m, args, env, st)} })
      : m \in {[kind |-> "oci"] @@ OCI_init(args.MODEL, args.engine)} })

\* the except KeyError clause of serve_cli: the OCI fallback
serve_fallback(e, args, env, st) ==
    IF Contains(args.MODEL, S_sep)
    THEN [st |-> st, exc |-> e, model |-> <<>>, steps |-> <<>>, MODEL |-> args.MODEL]
    ELSE Only({
      IF m.exc # "none"
      THEN [st |-> st, exc |-> e, model |-> <<>>, steps |-> <<"create_oci">>,
            MODEL |-> args.MODEL]
      ELSE Only({
        IF x.exc.type # "none"
        THEN [st |-> x.st, exc |-> e, model |-> <<>>,
              steps |-> <<"create_oci", "ensure_oci">>, MODEL |-> args.MODEL]
        ELSE [st |-> x.st, exc |-> NoExc, model |-> m,
              steps |-> <<"create_oci", "ensure_oci">>,
              MODEL |-> S_oci \o S_sep \o args.MODEL]
        : x \in {ensure_model_exists(m, args, env, st)} })
      : m \in {[kind |-> "oci"] @@ OCI_init(args.MODEL, args.engine)} })

\* serve_cli with a MODEL; model.serve is handed the transport
serve_model(args, env, st) ==
    Only({
      IF t.exc.type = "none"
      THEN [st |-> t.st, exc |-> NoExc, served |-> <<t.model>>,
            steps |-> t.steps \o <<"serve">>, MODEL |-> args.MODEL, tryexc |-> t.exc]
      ELSE IF ~IsA(t.exc.type, "KeyError")
      THEN [st |-> t.st, exc |-> t.exc, served |-> <<>>, steps |-> t.steps,
            MODEL |-> args.MODEL, tryexc |-> t.exc]
      ELSE Only({
        [st |-> f.st, exc |-> f.exc,
         served |-> IF f.exc.type = "none" THEN <<f.model>> ELSE <<>>,
         steps |-> t.steps \o f.steps \o (IF f.exc.type = "none" THEN <<"serve">> ELSE <<>>),
         MODEL |-> f.MODEL, tryexc |-> t.exc]
        : f \in {serve_fallback(t.exc, args, env, t.st)} })
      : t \in {serve_try(args, env, st)} })

(***************************************************************************)
(* serve without a MODEL: the router                                       *)
(***************************************************************************)
HashPrefixLen == 8

S_mnt == <<"/", "m", "n", "t", "/", "m", "o", "d", "e", "l", "s", "/">>

\* the name of the ref file of a ref entry
RefFileName(e) == e.tag \o S_json

\* RefJSONFile.model_files: the files the ref file lists
model_files(e) == e.files

\* os.path.exists(blob_path)
BlobExists(root, hash, st) == <<root, sanitize_filename(hash)>> \in st.blobs

\* the loop over ref_file.model_files of one ref
RECURSIVE enumerate_files(_, _, _, _, _)
enumerate_files(files, root, readable, st, acc) ==
    IF files = <<>> THEN acc
    ELSE IF ~BlobExists(root, files[1].hash, st)
    THEN enumerate_files(Tail(files), root, readable, st, acc)
    ELSE
    Only({
      Only({ enumerate_files(Tail(files), root, readable, st, acc2)
             : acc2 \in { [models     |-> Append(acc.models,
                                            [host_path |-> <<root, sanitize_filename(files[1].hash)>>,
                                             name      |-> name]),
                           seen_names |-> acc.seen_names \cup {name}] } })
      : name \in { IF (readable \o S_gguf) \in acc.seen_names
                   THEN readable \o S_dash \o Prefix(files[1].hash, HashPrefixLen) \o S_gguf
                   ELSE readable \o S_gguf } })

\* _enumerate_store_gguf_models; walk is the order in which os.walk and
\* os.listdir yield the ref files
RECURSIVE enumerate_refs(_, _, _)
enumerate_refs(walk, st, acc) ==
    IF walk = <<>> THEN acc.models
    ELSE
    Only({
      Only({ enumerate_refs(Tail(walk), st, acc2)
             : acc2 \in { enumerate_files(model_files(walk[1]), walk[1].root, readable,
                                          st, acc) } })
      : readable \in { Join(S_dash,
                            walk[1].root \o <<Replace(RefFileName(walk[1]), S_json, <<>>)>>) } })

enumerate_store_gguf_models(walk, st) ==
    enumerate_refs(walk, st, [models |-> <<>>, seen_names |-> {}])

\* get_container_mount_path: the host path as the container engine sees it
get_container_mount_path(host_path) == host_path

\* the --mount argument of one model
BindMount(m) ==
    [type |-> "bind", src |-> get_container_mount_path(m.host_path),
     destination |-> S_mnt \o m.name, options |-> <<"ro">>]

\* _serve_router with the test on the container after the port
serve_router_plan_port_first(args, env, walk, st) ==
    Only({
      IF p.exc.type # "none"
      THEN [exc |-> p.exc, plan |-> <<>>, steps |-> <<"accel", "port">>]
      ELSE [exc |-> Exc("NotImplementedError", <<>>), plan |-> <<>>,
            steps |-> <<"accel", "port">>]
      : p \in {compute_serving_port(args, env)} })

\* _serve_router up to the engine command: the plan
serve_router_plan(args, env, walk, st) ==
    IF ~args.container
    THEN [exc |-> Exc("NotImplementedError", <<>>), plan |-> <<>>, steps |-> <<>>]
    ELSE
    Only({
      IF p.exc.type # "none"
      THEN [exc |-> p.exc, plan |-> <<>>, steps |-> <<"accel", "port">>]
      ELSE Only({
        IF models = <<>>
        THEN [exc |-> Exc("IndexError", <<>>), plan |-> <<>>,
              steps |-> <<"accel", "port", "enumerate">>]
        ELSE [exc |-> NoExc, plan |-> [i \in DOMAIN models |-> BindMount(models[i])],
              steps |-> <<"accel", "port", "enumerate", "engine">>]
        : models \in {enumerate_store_gguf_models(walk, st)} })
      : p \in {compute_serving_port(args, env)} })

\* the end of _serve_router: engine.dryrun() or engine.exec()
serve_router_run(args) == IF args.dryrun THEN "dryrun" ELSE "exec"

\* serve_cli: without a MODEL the router, else the model
serve_cli(args, env, walk, st) ==
    IF args.MODEL = NoModel
    THEN Only({ [st |-> st, exc |-> r.exc, served |-> <<>>, plan |-> r.plan,
                 steps |-> r.steps \o (IF r.exc.type = "none"
                                       THEN <<serve_router_run(args)>> ELSE <<>>),
                 MODEL |-> args.MODEL, tryexc |-> NoExc]
                : r \in {serve_router_plan(args, env, walk, st)} })
    ELSE serve_model(args, env, st) @@ [plan |-> <<>>]

\* serve_cli starts by dropping --detach when there is no container
serve_detach(args) == IF ~args.container THEN FALSE ELSE args.detach

(***************************************************************************)
(* The universe of the runs                                                *)
(***************************************************************************)
MaxModels == 2      \* the most MODEL arguments one rm is given
MaxRefs == 3        \* the most refs in the store of a serve run

\* hf://a:latest is missing, complete or partly downloaded; hf://b:latest is
\* missing, complete or partly downloaded
Stores ==
    { a \cup b :
        a \in { {}, {Entry(RootA, S_latest, <<G1>>)}, {Entry(RootA, S_latest, <<G1, P1>>)} },
        b \in { {}, {Entry(RootB, S_latest, <<G2>>)}, {Entry(RootB, S_latest, <<P1>>)} } }

\* the stores of the serve runs: a ref with one GGUF file, one with a GGUF file
\* and its projector, one without any GGUF file, one split in three shards
ServeRefs ==
    { Entry(RootA, S_latest, <<G1>>), Entry(RootB, S_latest, <<G2, MM>>),
      Entry(RootC, S_latest, <<ST>>), Entry(RootD, S_latest, <<S1, S2, S3>>) }

ServeStores == { s \in SUBSET ServeRefs : Cardinality(s) <= MaxRefs }

AllBlobs(st) == UNION { BlobsOf(e) : e \in st }

\* every blob of the store is on disk, or the blobs of one ref are missing
BlobStates(st) == {AllBlobs(st)} \cup { AllBlobs(st \ {e}) : e \in st }

OciName == S_o \o S_colon \o S_latest

EngineStates == {"absent", "present", "stuck"}

\* the engine holds o:latest as a manifest list, an image, an artifact, or not
\* at all: a name is one object
Engines ==
    { eng \in [ {OciName} \X EngineKinds -> EngineStates ] :
        Cardinality({ k \in DOMAIN eng : eng[k] # "absent" }) <= 1 }

ServeEngines ==
    { eng \in Engines : \A k \in DOMAIN eng : eng[k] = "present" => k[2] = "image" }

\* what the user may type as MODEL
ArgNames == { S_hf \o S_sep \o S_a, S_oci \o S_sep \o S_o, S_o, S_t }

ServeNames == { S_hf \o S_sep \o S_a, S_hf \o S_sep \o S_b, S_oci \o S_sep \o S_o, S_o, S_p }

ModelLists == UNION { [1..n -> ArgNames] : n \in 0..MaxModels }

Perms(S) == { q \in [1..Cardinality(S) -> S] : \A x \in S : \E i \in DOMAIN q : q[i] = x }

\* the orders of a walk of the store: the refs of one directory follow each other
Walks(st) ==
    { q \in Perms(st) :
        \A i, j, k \in DOMAIN q : (i < j /\ j < k /\ q[i].root = q[k].root) => q[j].root = q[i].root }

Range(q) == { q[i] : i \in DOMAIN q }

Idle ==
    [cmd |-> "idle", pc |-> "done", args |-> <<>>, exc |-> NoExc, exit |-> main_exit(NoExc),
     stderr |-> <<>>, log |-> <<>>, tried |-> <<>>, ret |-> <<>>, order |-> <<>>,
     served |-> <<>>, plan |-> <<>>, steps |-> <<>>, MODEL |-> <<>>, tryexc |-> NoExc,
     detach |-> FALSE, missing |-> {}]

\* what a command leaves behind: its own fields, and the exit status of main
Done(rec) == [exit |-> main_exit((rec @@ Idle).exc)] @@ rec @@ Idle

Disk == [store |-> store, blobs |-> blobs, engine |-> engine, log |-> <<>>, tried |-> <<>>]

RmArgs(all, ignore, MODEL, eng, container) ==
    [all |-> all, ignore |-> ignore, MODEL |-> MODEL, engine |-> eng, container |-> container]

ListArgs(all, sort, order, eng, container) ==
    [all |-> all, sort |-> sort, order |-> order, engine |-> eng, container |-> container]

ServeArgs(MODEL, container, eng, dryrun, detach) ==
    [MODEL |-> MODEL, container |-> container, engine |-> eng, dryrun |-> dryrun,
     detach |-> detach]

ListingNames(args) == { m.name : m \in list_models(Disk, args.engine, args.container) }

(***************************************************************************)
(* One run of the command line: a command, then the process ends           *)
(***************************************************************************)
Init ==
    /\ store \in Stores
    /\ blobs = AllBlobs(store)
    /\ engine \in Engines
    /\ last = Idle

\* ramalama rm MODEL...
RmNamed ==
    /\ last.cmd = "idle"
    /\ \E ignore \in BOOLEAN, eng \in BOOLEAN, MODEL \in ModelLists,
          nf \in {"false", "KeyError"} :
        \E args \in {RmArgs(FALSE, ignore, MODEL, eng, TRUE)} :
        \E r \in {rm_cli(args, nf, <<>>, Disk)} :
            /\ store' = r.st.store
            /\ blobs' = r.st.blobs
            /\ engine' = r.st.engine
            /\ last' = Done([cmd |-> "rm", args |-> args, exc |-> r.exc, stderr |-> r.stderr,
                             log |-> r.st.log, tried |-> r.st.tried])

\* ramalama rm --all
RmAll ==
    /\ last.cmd = "idle"
    /\ \E ignore \in BOOLEAN, eng \in BOOLEAN, container \in BOOLEAN,
          MODEL \in {<<>>, <<S_o>>}, nf \in {"false", "KeyError"} :
        \E args \in {RmArgs(TRUE, ignore, MODEL, eng, container)} :
        \E order \in Perms(ListingNames(args)) :
        \E r \in {rm_cli(args, nf, order, Disk)} :
            /\ store' = r.st.store
            /\ blobs' = r.st.blobs
            /\ engine' = r.st.engine
            /\ last' = Done([cmd |-> "rm", args |-> args, exc |-> r.exc, stderr |-> r.stderr,
                             log |-> r.st.log, tried |-> r.st.tried, order |-> order])

\* ramalama list
ListCli ==
    /\ last.cmd = "idle"
    /\ \E all \in BOOLEAN, sort \in {"size", "modified", "name"},
          order \in {"desc", "asc"}, eng \in BOOLEAN, container \in BOOLEAN :
        \E args \in {ListArgs(all, sort, order, eng, container)} :
        \E items \in Perms(list_models(Disk, eng, container)) :
            /\ last' = Done([cmd |-> "list", args |-> args,
                             ret |-> list_models_from_store(items, args), order |-> items])
            /\ UNCHANGED <<store, blobs, engine>>

\* OCI.remove on its own
OciRemove ==
    /\ last.cmd = "idle"
    /\ \E ignore \in BOOLEAN :
        \E args \in {RmArgs(FALSE, ignore, <<>>, TRUE, TRUE)} :
        \E self \in {OCI_init(S_oci \o S_sep \o S_o, TRUE)} :
        \E r \in {OCI_remove(self, args, Disk)} :
            /\ store' = r.st.store
            /\ blobs' = r.st.blobs
            /\ engine' = r.st.engine
            /\ last' = Done([cmd |-> "OCI.remove", args |-> args, exc |-> r.exc,
                             log |-> r.st.log, ret |-> r.ret])

\* the process ends; the next one finds the disk as this one left it
Exit ==
    /\ last.cmd # "idle"
    /\ last' = Idle
    /\ UNCHANGED <<store, blobs, engine>>

Next == RmNamed \/ RmAll \/ ListCli \/ OciRemove \/ Exit

Spec == Init /\ [][Next]_vars

(***************************************************************************)
(* The serve runs                                                          *)
(***************************************************************************)
InitServe ==
    /\ store \in ServeStores
    /\ blobs \in BlobStates(store)
    /\ engine \in ServeEngines
    /\ last = Idle

Envs == [net : {"up", "down"}, ports : {"free", "none"}]

\* ramalama serve MODEL
ServeModel ==
    /\ last.cmd = "idle"
    /\ \E MODEL \in ServeNames, container \in BOOLEAN, eng \in BOOLEAN, env \in Envs :
        \E args \in {ServeArgs(MODEL, container, eng, FALSE, TRUE)} :
        \E r \in {serve_cli(args, env, <<>>, Disk)} :
            /\ store' = r.st.store
            /\ blobs' = r.st.blobs
            /\ engine' = r.st.engine
            /\ last' = Done([cmd |-> "serve", args |-> args, detach |-> serve_detach(args)] @@ r)

\* ramalama serve, without a MODEL
ServeRouter ==
    /\ last.cmd = "idle"
    /\ \E container \in BOOLEAN, dryrun \in BOOLEAN, env \in Envs, walk \in Walks(store) :
        \E args \in {ServeArgs(NoModel, container, TRUE, dryrun, TRUE)} :
        \E r \in {serve_cli(args, env, walk, Disk)} :
            /\ last' = Done([cmd |-> "serve", args |-> args, detach |-> serve_detach(args),
                             order |-> walk] @@ r)
            /\ UNCHANGED <<store, blobs, engine>>

NextServe == ServeModel \/ ServeRouter \/ Exit

SpecServe == InitServe /\ [][NextServe]_vars

(***************************************************************************)
(* The router beside a removal: serve enumerates the store and launches    *)
(* the engine in two steps, while another process removes refs: the ref    *)
(* first, then the blobs no ref uses any more                              *)
(***************************************************************************)
InitRace ==
    /\ store \in ServeStores
    /\ blobs = AllBlobs(store)
    /\ engine \in { eng \in ServeEngines : \A k \in DOMAIN eng : eng[k] = "absent" }
    /\ last = Idle

\* _serve_router up to the engine command
RouterEnumerate ==
    /\ last.cmd = "idle"
    /\ \E walk \in Walks(store) :
        \E args \in {ServeArgs(NoModel, TRUE, TRUE, FALSE, TRUE)} :
        \E r \in {serve_router_plan(args, [net |-> "up", ports |-> "free"], walk, Disk)} :
            /\ r.exc.type = "none"
            /\ last' = Done([cmd |-> "serve", pc |-> "planned", args |-> args,
                             order |-> walk, MODEL |-> NoModel] @@ r)
    /\ UNCHANGED <<store, blobs, engine>>

\* engine.exec(): the engine resolves the sources of the bind mounts
RouterExec ==
    /\ last.cmd = "serve" /\ last.pc = "planned"
    /\ last' = [last EXCEPT !.pc = "launched",
                            !.steps = Append(@, serve_router_run(last.args)),
                            !.missing = { i \in DOMAIN last.plan : last.plan[i].src \notin blobs }]
    /\ UNCHANGED <<store, blobs, engine>>

\* the first step of a removal: the ref
RmRef ==
    /\ \E e \in store : store' = store \ {e}
    /\ UNCHANGED <<blobs, engine, last>>

\* the later steps of a removal: a blob no ref uses
RmOrphanBlob ==
    /\ \E b \in blobs \ AllBlobs(store) : blobs' = blobs \ {b}
    /\ UNCHANGED <<store, engine, last>>

NextRace == RouterEnumerate \/ RouterExec \/ RmRef \/ RmOrphanBlob \/ Exit

SpecRace == InitRace /\ [][NextRace]_vars

(***************************************************************************)
(* verify_checksum                                                         *)
(* A file is [filename, exists, content]; the content is a string of bytes *)
(***************************************************************************)
ChecksumLen == 64

\* s.split(sep): the pieces of s between the occurrences of sep
RECURSIVE Split(_, _)
Split(s, sep) ==
    IF Contains(s, sep)
    THEN <<SubSeq(s, 1, Find(s, sep) - 1)>>
         \o Split(SubSeq(s, Find(s, sep) + Len(sep), Len(s)), sep)
    ELSE <<s>>

\* os.path.basename
basename(filename) == LastComponent(filename)

\* hashlib.sha256(content).hexdigest(), for the contents of the runs
Digest_empty ==
    <<
    "e", "3", "b", "0", "c", "4", "4", "2", "9", "8", "f", "c", "1", "c", "1", "4",
    "9", "a", "f", "b", "f", "4", "c", "8", "9", "9", "6", "f", "b", "9", "2", "4",
    "2", "7", "a", "e", "4", "1", "e", "4", "6", "4", "9", "b", "9", "3", "4", "c",
    "a", "4", "9", "5", "9", "9", "1", "b", "7", "8", "5", "2", "b", "8", "5", "5" >>

Digest_a ==
    <<
    "c", "a", "9", "7", "8", "1", "1", "2", "c", "a", "1", "b", "b", "d", "c", "a",
    "f", "a", "c", "2", "3", "1", "b", "3", "9", "a", "2", "3", "d", "c", "4", "d",
    "a", "7", "8", "6", "e", "f", "f", "8", "1", "4", "7", "c", "4", "e", "7", "2",
    "b", "9", "8", "0", "7", "7", "8", "5", "a", "f", "e", "e", "4", "8", "b", "b" >>

Digest_b ==
    <<
    "3", "e", "2", "3", "e", "8", "1", "6", "0", "0", "3", "9", "5", "9", "4", "a",
    "3", "3", "8", "9", "4", "f", "6", "5", "6", "4", "e", "1", "b", "1", "3", "4",
    "8", "b", "b", "d", "7", "a", "0", "0", "8", "8", "d", "4", "2", "c", "4", "a",
    "c", "b", "7", "3", "e", "e", "a", "e", "d", "5", "9", "c", "0", "0", "9", "d" >>

sha256_hexdigest(content) ==
    CASE content = <<>>  -> Digest_empty
      [] content = S_a   -> Digest_a
      [] content = S_b   -> Digest_b

\* verify_checksum: ret is "True" or "False", or "none" when it raises
verify_checksum(file) ==
    IF ~file.exists THEN [ret |-> "False", exc |-> NoExc]
    ELSE
    LET fn_base == basename(file.filename)
        expected_checksum ==
            IF StartsWith(fn_base, S_sha256 \o S_colon) THEN <<Split(fn_base, S_colon)[2]>>
            ELSE IF StartsWith(fn_base, S_sha256 \o S_dash) THEN <<Split(fn_base, S_dash)[2]>>
            ELSE <<>>
    IN  IF expected_checksum = <<>>
        THEN [ret |-> "none", exc |-> Exc("ValueError", fn_base)]
        ELSE IF Len(expected_checksum[1]) # ChecksumLen
        THEN [ret |-> "none", exc |-> Exc("ValueError", fn_base)]
        ELSE [ret |-> IF sha256_hexdigest(file.content) = expected_checksum[1]
                      THEN "True" ELSE "False",
              exc |-> NoExc]

Rep(c, n) == [i \in 1..n |-> c]

\* what follows the prefix of a file name: a digest, 64 characters that are no
\* digest of a content, one character less or more, 64 characters with a
\* separator among them, a digest followed by a separator and more
ChecksumBodies ==
    { Digest_empty, Digest_a, Digest_b, Rep("0", ChecksumLen),
      Rep("0", ChecksumLen - 1), Rep("0", ChecksumLen + 1), <<>> }
    \cup { Rep("0", 32) \o sep \o Rep("0", ChecksumLen - 33) : sep \in {S_dash, S_colon} }
    \cup { Digest_a \o sep \o S_a : sep \in {S_dash, S_colon} }

NamePrefixes == { S_sha256 \o S_colon, S_sha256 \o S_dash, <<"m", "d", "5", "-">>, <<>> }

ChecksumFiles ==
    { [filename |-> dir \o prefix \o body, exists |-> exists, content |-> content] :
        dir \in { <<>>, <<"b", "l", "o", "b", "s", "/">> },
        prefix \in NamePrefixes, body \in ChecksumBodies,
        exists \in BOOLEAN, content \in { <<>>, S_a, S_b } }

InitUtil ==
    /\ store = {}
    /\ blobs = {}
    /\ engine \in { eng \in Engines : \A k \in DOMAIN eng : eng[k] = "absent" }
    /\ last = Idle

\* verify_checksum(filename)
VerifyChecksum ==
    /\ last.cmd = "idle"
    /\ \E file \in ChecksumFiles :
        \E r \in {verify_checksum(file)} :
            last' = Done([cmd |-> "verify_checksum", args |-> file, ret |-> r.ret,
                          exc |-> r.exc])
    /\ UNCHANGED <<store, blobs, engine>>


(***************************************************************************)
(* main: the exit status of the process                                    *)
(***************************************************************************)
\* the values of the errno module that main uses
ENOENT == 2
EIO == 5
EINVAL == 22
ENOSYS == 38
ETIMEDOUT == 110

\* sys.exit(exit_code) of eprint and of the silent clauses; a traceback ends
\* the interpreter with status 1
exit_status(exc) ==
    LET code == main_exit(exc).code IN
    CASE code = "0"          -> 0
      [] code = "1"          -> 1
      [] code = "traceback"  -> 1
      [] code = "ENOENT"     -> ENOENT
      [] code = "EIO"        -> EIO
      [] code = "EINVAL"     -> EINVAL
      [] code = "ENOSYS"     -> ENOSYS
      [] code = "ETIMEDOUT"  -> ETIMEDOUT
      [] code = "returncode" -> exc.returncode

\* a subprocess.CalledProcessError with its returncode
CalledProcessError(returncode) ==
    [type |-> "CalledProcessError", names |-> <<>>, returncode |-> returncode]

\* what a command may raise
RaisedTypes ==
    { "HTTPError", "URLError", "FileNotFoundError", "PermissionError", "ConnectionError",
      "BrokenPipeError", "ConnectionRefusedError", "TimeoutError", "OSError", "IndexError",
      "KeyError", "ValueError", "JSONDecodeError", "UnicodeDecodeError", "NoRefFileFound",
      "NotImplementedError", "TimeoutExpired", "EndianMismatchError", "KeyboardInterrupt",
      "ParseError", "NoGGUFModelFileFound", "RuntimeError", "Exception" }

RaisedExceptions ==
    { Exc(t, <<>>) : t \in RaisedTypes }
    \cup { CalledProcessError(rc) : rc \in {1, 2, 125, 126, 127} }

\* main with a command that raises
MainRaises ==
    /\ last.cmd = "idle"
    /\ \E exc \in RaisedExceptions :
        last' = Done([cmd |-> "main", args |-> exc, exc |-> exc,
                      ret |-> exit_status(exc)])
    /\ UNCHANGED <<store, blobs, engine>>

(***************************************************************************)
(* post_parse_setup                                                        *)
(***************************************************************************)
S_https     == <<"h", "t", "t", "p", "s">>
S_http      == <<"h", "t", "t", "p">>
S_ollama    == <<"o", "l", "l", "a", "m", "a">>
S_hf_co     == <<"h", "f", ".", "c", "o">>
S_hf_co_up  == <<"H", "F", ".", "c", "o">>
S_hface_co  == <<"h", "u", "g", "g", "i", "n", "g", "f", "a", "c", "e", ".", "c", "o">>
S_ollama_com == <<"o", "l", "l", "a", "m", "a", ".", "c", "o", "m">>
S_quay_io   == <<"q", "u", "a", "y", ".", "i", "o">>
S_port443   == <<":", "4", "4", "3">>
S_query     == <<"?", "r", "=", "/">>

\* str.count of a character
RECURSIVE CountChar(_, _)
CountChar(s, c) ==
    IF s = <<>> THEN 0
    ELSE (IF s[1] = c THEN 1 ELSE 0) + CountChar(Tail(s), c)

\* the position of the first character of s that is in chars, Len(s) + 1 if none
FirstOf(s, chars) ==
    IF \E i \in 1..Len(s) : s[i] \in chars
    THEN CHOOSE i \in 1..Len(s) : s[i] \in chars /\ \A j \in 1..(i - 1) : s[j] \notin chars
    ELSE Len(s) + 1

\* str.lower on the letters that occur
LowerChar(c) ==
    CASE c = "H" -> "h"
      [] c = "F" -> "f"
      [] OTHER -> c

Lower(s) == [i \in 1..Len(s) |-> LowerChar(s[i])]

\* urllib.parse.urlparse of an input that starts with a scheme and "://":
\* the netloc ends at the first "/", "?" or "#", the path at the first "?" or
\* "#"; hostname is the netloc without user info and port, in lower case
urlparse(input) ==
    Only({ Only({ [netloc   |-> SubSeq(rest, 1, n - 1),
                   hostname |-> Only({ Lower(SubSeq(h, 1, FirstOf(h, {":"}) - 1))
                                       : h \in {Only({ SubSeq(nl, IF Contains(nl, <<"@">>)
                                                                   THEN (CHOOSE i \in 1..Len(nl) :
                                                                           nl[i] = "@" /\ \A j \in (i + 1)..Len(nl) : nl[j] # "@") + 1
                                                                   ELSE 1, Len(nl))
                                                       : nl \in {SubSeq(rest, 1, n - 1)} })} }),
                   path     |-> Only({ SubSeq(after, 1, FirstOf(after, {"?", "#"}) - 1)
                                       : after \in {SubSeq(rest, n, Len(rest))} })]
                  : n \in {FirstOf(rest, {"/", "?", "#"})} })
           : rest \in {SubSeq(input, Find(input, S_sep) + Len(S_sep), Len(input))} })

\* map_https_to_transport without the test of the path
map_https_any_path(input) ==
    IF StartsWith(input, S_https \o S_sep) \/ StartsWith(input, S_http \o S_sep)
    THEN Only({ IF url.hostname \in {S_hf_co, S_hface_co}
                THEN S_hf \o <<":", "/">> \o url.path
                ELSE IF url.hostname \in {S_ollama_com}
                THEN S_ollama \o <<":", "/">> \o url.path
                ELSE input
                : url \in {urlparse(input)} })
    ELSE input

\* map_https_to_transport
map_https_to_transport(input) ==
    IF StartsWith(input, S_https \o S_sep) \/ StartsWith(input, S_http \o S_sep)
    THEN Only({ IF CountChar(url.path, "/") # 2 THEN input
                ELSE IF url.hostname \in {S_hf_co, S_hface_co}
                THEN S_hf \o <<":", "/">> \o url.path
                ELSE IF url.hostname \in {S_ollama_com}
                THEN S_ollama \o <<":", "/">> \o url.path
                ELSE input
                : url \in {urlparse(input)} })
    ELSE input

\* the runtime mlx leaves --container alone when it was asked for
mlx_container_keeps_forced(runtime, container) ==
    IF runtime = "mlx" /\ ~container THEN FALSE ELSE container

\* if getattr(args, "runtime", None) == "mlx": args.container = False
mlx_container(runtime, container) ==
    IF runtime = "mlx" THEN FALSE ELSE container

\* the MODEL part of post_parse_setup: INITIAL_MODEL, the rewrite of a URL,
\* UNRESOLVED_MODEL, the shortname resolution; on a string or on each element
\* of a list
post_parse_model(MODEL) ==
    IF MODEL.kind = "str"
    THEN Only({ [INITIAL_MODEL |-> MODEL.val, UNRESOLVED_MODEL |-> u,
                 MODEL |-> shortnames_resolve(u)]
                : u \in {map_https_to_transport(MODEL.val)} })
    ELSE IF MODEL.kind = "list"
    THEN Only({ [INITIAL_MODEL |-> MODEL.val, UNRESOLVED_MODEL |-> u,
                 MODEL |-> [i \in 1..Len(u) |-> shortnames_resolve(u[i])]]
                : u \in {[i \in 1..Len(MODEL.val) |-> map_https_to_transport(MODEL.val[i])]} })
    ELSE [INITIAL_MODEL |-> <<>>, UNRESOLVED_MODEL |-> <<>>, MODEL |-> <<>>]

\* s.split(sep, maxsplit)
RECURSIVE SplitN(_, _, _)
SplitN(s, sep, maxsplit) ==
    IF maxsplit > 0 /\ Contains(s, sep)
    THEN <<SubSeq(s, 1, Find(s, sep) - 1)>>
         \o SplitN(SubSeq(s, Find(s, sep) + Len(sep), Len(s)), sep, maxsplit - 1)
    ELSE <<s>>

\* the test of one --add-to-unit value with every colon splitting
unit_is_valid_split_all(unit_to_add) ==
    Cardinality({ i \in DOMAIN Split(unit_to_add, S_colon) :
                    Split(unit_to_add, S_colon)[i] # <<>> }) = 3

\* len([value for value in unit_to_add.split(":", 2) if value]) == 3
unit_is_valid(unit_to_add) ==
    Cardinality({ i \in DOMAIN SplitN(unit_to_add, S_colon, 2) :
                    SplitN(unit_to_add, S_colon, 2)[i] # <<>> }) = 3

\* the --add-to-unit part of post_parse_setup: "none", or the message of
\* parser.error
add_to_unit_error(args) ==
    IF args.add_to_unit = <<>> THEN "none"
    ELSE IF ~args.generate THEN "--add-to-unit can only be used with --generate"
    ELSE IF ~(\A i \in DOMAIN args.add_to_unit : unit_is_valid(args.add_to_unit[i]))
    THEN "--add-to-unit parameters must be of the form <section>:<key>:<value>"
    ELSE "none"

\* post_parse_setup: the model, --add-to-unit (parser.error exits with status
\* 2), the runtime mlx
post_parse_setup(args) ==
    Only({ IF add_to_unit_error(args) # "none"
           THEN [args |-> [args EXCEPT !.model = m], exc |-> Exc("SystemExit", <<>>),
                 stderr |-> add_to_unit_error(args)]
           ELSE [args |-> [args EXCEPT !.model = m,
                                       !.container = mlx_container(args.runtime, args.container)],
                 exc |-> NoExc, stderr |-> "none"]
           : m \in {post_parse_model(args.MODEL)} })

\* the model arguments: URLs made of a scheme, a host, a port, a path and a
\* query, and plain names
UrlSchemes == {S_https, S_http, S_hf, S_oci}
UrlHosts == {S_hf_co, S_hf_co_up, S_hface_co, S_ollama_com, S_quay_io}
UrlPorts == {<<>>, S_port443}
UrlPaths == {<<>>, S_slash \o S_a, S_slash \o S_a \o S_slash \o S_b,
             S_slash \o S_a \o S_slash \o S_b \o S_slash \o S_t}
UrlQueries == {<<>>, S_query}

UrlParts == [scheme : UrlSchemes, host : UrlHosts, port : UrlPorts, path : UrlPaths,
             query : UrlQueries]

NameParts == { [scheme |-> <<>>, host |-> <<>>, port |-> <<>>, path |-> n, query |-> <<>>]
               : n \in {S_t, S_a} }

\* the string of the parts
UrlOf(p) ==
    IF p.scheme = <<>> THEN p.path
    ELSE p.scheme \o S_sep \o p.host \o p.port \o p.path \o p.query

\* the lists of models tried: pairs over a few inputs
ListParts ==
    { [scheme |-> S_https, host |-> S_hface_co, port |-> <<>>, path |-> pa, query |-> <<>>]
      : pa \in {S_slash \o S_a, S_slash \o S_a \o S_slash \o S_b} }
    \cup { [scheme |-> <<>>, host |-> <<>>, port |-> <<>>, path |-> S_t, query |-> <<>>] }

PostParseModels ==
    { [kind |-> "str", val |-> UrlOf(p), parts |-> <<p>>] : p \in UrlParts \cup NameParts }
    \cup { [kind |-> "list", val |-> <<UrlOf(p), UrlOf(q)>>, parts |-> <<p, q>>]
           : p \in ListParts, q \in ListParts }
    \cup { [kind |-> "none", val |-> <<>>, parts |-> <<>>] }

\* the --add-to-unit values tried: the strings of "a" and ":" up to MaxUnitLen
MaxUnitLen == 5

RECURSIVE UnitStrings(_)
UnitStrings(n) ==
    IF n = 0 THEN {<<>>}
    ELSE UnitStrings(n - 1)
         \cup { Append(u, c) : u \in { v \in UnitStrings(n - 1) : Len(v) = n - 1 }, c \in {"a", ":"} }

\* --add-to-unit absent, given once, or given twice
AddToUnits ==
    {<<>>} \cup { <<u>> : u \in UnitStrings(MaxUnitLen) }
    \cup { <<u, v>> : u, v \in {<<"a", ":", "a", ":", "a">>, <<"a", ":", ":", "a">>} }

PostParseOptions ==
    [runtime : {"llama.cpp", "mlx"}, container : BOOLEAN,
     add_to_unit : AddToUnits, generate : BOOLEAN]

\* the command lines tried: every model without --add-to-unit, every
\* --add-to-unit with a list of models or none
PostParseCases ==
    { c \in PostParseOptions \X PostParseModels :
        c[1].add_to_unit = <<>> \/ c[2].kind # "str" }

\* one command line goes through post_parse_setup
PostParseSetup ==
    /\ last.cmd = "idle"
    /\ \E c \in PostParseCases :
        \E args \in {[MODEL |-> c[2], model |-> <<>>, runtime |-> c[1].runtime,
                       container |-> c[1].container, add_to_unit |-> c[1].add_to_unit,
                       generate |-> c[1].generate]} :
          \E r \in {post_parse_setup(args)} :
            last' = [cmd |-> "post_parse_setup", args |-> args, ret |-> r.args,
                     exc |-> r.exc, stderr |-> r.stderr,
                     exit |-> IF r.exc.type = "none" THEN main_exit(NoExc)
                              ELSE [code |-> "2", printed |-> TRUE]] @@ Idle
    /\ UNCHANGED <<store, blobs, engine>>

(***************************************************************************)
(* populate_volume_from_image                                              *)
(* The engine is given by the exit statuses of its commands; the state is  *)
(* the containers that exist and the engine commands run so far.           *)
(***************************************************************************)
S_src == <<"s", "r", "c", "-">>     \* the name of the source container

\* the finally block that removes the container only after a success
populate_cleanup_on_success(st) ==
    IF st.exc.type = "none"
    THEN [st EXCEPT !.containers = @ \ {S_src}, !.log = Append(@, "rm -f")]
    ELSE st

\* finally: run_cmd([args.engine, "rm", "-f", src])
populate_cleanup(st) ==
    [st EXCEPT !.containers = @ \ {S_src}, !.log = Append(@, "rm -f")]

\* the try block: export piped into untar, CalledProcessError(rc_in or rc_out)
\* if one of them exits non-zero
populate_export(env, st) ==
    IF env.popen # "ok"
    THEN [st EXCEPT !.exc = Exc(env.popen, <<>>), !.log = Append(@, "export")]
    ELSE IF env.rc_in # 0 \/ env.rc_out # 0
    THEN [st EXCEPT !.exc = CalledProcessError(IF env.rc_in # 0 THEN env.rc_in ELSE env.rc_out),
                    !.log = @ \o <<"export", "run">>]
    ELSE [st EXCEPT !.log = @ \o <<"export", "run">>]

\* populate_volume_from_image
populate_volume_from_image(env) ==
    LET st0 == [containers |-> IF env.stale THEN {S_src} ELSE {}, created |-> FALSE,
                log |-> <<"volume create">>, exc |-> NoExc, ret |-> "none"]
    IN
    IF env.volume_rc # 0 THEN [st0 EXCEPT !.exc = CalledProcessError(env.volume_rc)]
    ELSE IF env.create_rc # 0
    THEN [st0 EXCEPT !.containers = {}, !.log = @ \o <<"rm -f", "create">>,
                     !.exc = CalledProcessError(env.create_rc)]
    ELSE
    Only({ IF st.exc.type = "none" THEN [st EXCEPT !.ret = "volume"] ELSE st
           : st \in { populate_cleanup(
                        populate_export(env,
                          [st0 EXCEPT !.containers = {S_src}, !.created = TRUE,
                                      !.log = @ \o <<"rm -f", "create">>])) } })

\* the exit statuses tried: success, an error, killed by a signal
PopulateEnvs ==
    [volume_rc : {0, 125}, create_rc : {0, 125}, stale : BOOLEAN,
     popen : {"ok", "FileNotFoundError"}, rc_out : {-9, 0, 1}, rc_in : {-9, 0, 2}]

PopulateVolume ==
    /\ last.cmd = "idle"
    /\ \E env \in PopulateEnvs :
        \E r \in {populate_volume_from_image(env)} :
            last' = [cmd |-> "populate_volume", args |-> env, ret |-> r, exc |-> r.exc,
                     exit |-> main_exit(r.exc)] @@ Idle
    /\ UNCHANGED <<store, blobs, engine>>

(***************************************************************************)
(* parse_port_option                                                       *)
(* The option is the string of the command line                            *)
(***************************************************************************)
Digits == <<"0", "1", "2", "3", "4", "5", "6", "7", "8", "9">>

DigitVal(c) == (CHOOSE i \in DOMAIN Digits : Digits[i] = c) - 1

\* the value of a string of decimal digits
RECURSIVE DecVal(_)
DecVal(s) ==
    IF s = <<>> THEN 0
    ELSE DecVal(SubSeq(s, 1, Len(s) - 1)) * 10 + DigitVal(s[Len(s)])

\* int(option): an optional sign and decimal digits, else ValueError
int(option) ==
    Only({ IF body = <<>> \/ \E i \in DOMAIN body : body[i] \notin Range(Digits)
           THEN [value |-> 0, exc |-> Exc("ValueError", option)]
           ELSE [value |-> IF option[1] = "-" THEN 0 - DecVal(body) ELSE DecVal(body),
                 exc |-> NoExc]
           : body \in { IF option # <<>> /\ option[1] \in {"+", "-"}
                        THEN Tail(option) ELSE option } })

\* parse_port_option
parse_port_option(option) ==
    Only({ IF port.exc.type # "none" THEN [ret |-> <<>>, exc |-> port.exc]
           ELSE IF port.value <= 0 \/ port.value >= 65535
           THEN [ret |-> <<>>, exc |-> Exc("ValueError", option)]
           ELSE [ret |-> option, exc |-> NoExc]
           : port \in {int(option)} })

\* str(n) of a natural number
RECURSIVE Decimal(_)
Decimal(n) ==
    IF n < 10 THEN << Digits[n + 1] >>
    ELSE Decimal(n \div 10) \o << Digits[(n % 10) + 1] >>

\* the integers given as --port, and how they are written
PortValues == {0, 1, 2, 80, 8080, 65534, 65535, 65536, 99999}

PortOptions ==
    { [option |-> Decimal(n), integer |-> TRUE, number |-> n] : n \in PortValues }
      \cup { [option |-> <<"-">> \o Decimal(n), integer |-> TRUE, number |-> 0 - n]
             : n \in PortValues \ {0} }
      \cup { [option |-> <<"+">> \o Decimal(n), integer |-> TRUE, number |-> n]
             : n \in {80, 65535} }
      \cup { [option |-> o, integer |-> FALSE, number |-> 0]
             : o \in { <<>>, <<"a">>, <<"8", "0", "a">>, <<"-">> } }

\* --port OPTION of serve: argparse applies parse_port_option to the option
ParsePortOption ==
    /\ last.cmd = "idle"
    /\ \E o \in PortOptions :
        \E r \in {parse_port_option(o.option)} :
            last' = Done([cmd |-> "parse_port_option", args |-> o, ret |-> r.ret,
                          exc |-> r.exc])
    /\ UNCHANGED <<store, blobs, engine>>

(***************************************************************************)
(* The runs of the helpers                                                 *)
(***************************************************************************)
NextUtil == VerifyChecksum \/ MainRaises \/ PostParseSetup \/ PopulateVolume \/ ParsePortOption \/ Exit

SpecUtil == InitUtil /\ [][NextUtil]_vars

(***************************************************************************)
(* The documents of the RAG pipeline                                       *)
(* A text is a string of the characters "#", " ", "\n" and "a"; a          *)
(* DoclingDocument is its markdown export and its items in reading order;  *)
(* an entry of docs is a raw text (str) or a DoclingDocument.              *)
(***************************************************************************)
Whitespace == {" ", "\n"}

RECURSIVE lstrip(_)
lstrip(s) == IF s # <<>> /\ s[1] \in Whitespace THEN lstrip(Tail(s)) ELSE s

RECURSIVE rstrip(_)
rstrip(s) ==
    IF s # <<>> /\ s[Len(s)] \in Whitespace THEN rstrip(SubSeq(s, 1, Len(s) - 1)) ELSE s

\* str.strip()
strip(s) == rstrip(lstrip(s))

\* the number of characters of the set that follow each other from position i
RECURSIVE RunLen(_, _, _)
RunLen(s, i, set) ==
    IF i <= Len(s) /\ s[i] \in set THEN 1 + RunLen(s, i + 1, set) ELSE 0

\* _HEADING_RE = ^(#{1,6})\s+ with re.MULTILINE, tried at position i: the
\* lengths of the group and of the whole match, 0 when it does not match
HEADING_RE_match(s, i) ==
    Only({ IF (i = 1 \/ s[i - 1] = "\n") /\ h \in 1..6 /\ RunLen(s, i + h, Whitespace) >= 1
           THEN [group |-> h, len |-> h + RunLen(s, i + h, Whitespace)]
           ELSE [group |-> 0, len |-> 0]
           : h \in {RunLen(s, i, {"#"})} })

\* _HEADING_RE.split(text): the pieces between the matches, each match
\* leaving its group between two pieces
RECURSIVE HEADING_RE_split_from(_, _, _)
HEADING_RE_split_from(s, i, start) ==
    IF i > Len(s) THEN << SubSeq(s, start, Len(s)) >>
    ELSE Only({ IF m.len > 0
                THEN << SubSeq(s, start, i - 1), SubSeq(s, i, i + m.group - 1) >>
                       \o HEADING_RE_split_from(s, i + m.len, i + m.len)
                ELSE HEADING_RE_split_from(s, i + 1, start)
                : m \in {HEADING_RE_match(s, i)} })

HEADING_RE_split(s) == HEADING_RE_split_from(s, 1, 1)

\* _HEADING_RE.search(text)
HEADING_RE_search(s) == \E i \in 1..Len(s) : HEADING_RE_match(s, i).len > 0

\* \n\s*\n tried at position i: the length of the match, 0 when it does not
\* match; \s* is greedy and gives back down to the last newline of the run
PARA_RE_match(s, i) ==
    IF s[i] # "\n" THEN 0
    ELSE Only({ IF js = {} THEN 0 ELSE (CHOOSE j \in js : \A k \in js : k <= j) - i + 1
                : js \in { { j \in (i + 1)..(i + RunLen(s, i + 1, Whitespace)) : s[j] = "\n" } } })

\* re.split(r"\n\s*\n", text)
RECURSIVE PARA_RE_split_from(_, _, _)
PARA_RE_split_from(s, i, start) ==
    IF i > Len(s) THEN << SubSeq(s, start, Len(s)) >>
    ELSE Only({ IF m > 0
                THEN << SubSeq(s, start, i - 1) >> \o PARA_RE_split_from(s, i + m, i + m)
                ELSE PARA_RE_split_from(s, i + 1, start)
                : m \in {PARA_RE_match(s, i)} })

PARA_RE_split(s) == PARA_RE_split_from(s, 1, 1)

\* the pieces of a list that are not blank, stripped
RECURSIVE StrippedNonBlank(_)
StrippedNonBlank(pieces) ==
    IF pieces = <<>> THEN <<>>
    ELSE (IF strip(pieces[1]) # <<>> THEN << strip(pieces[1]) >> ELSE <<>>)
           \o StrippedNonBlank(Tail(pieces))

\* the while loop of _chunk_text over the (hashes, body) pairs from index i
RECURSIVE chunk_text_sections(_, _)
chunk_text_sections(sections, i) ==
    IF ~(i < Len(sections)) THEN <<>>
    ELSE (IF strip(sections[i + 1]) # <<>>
          THEN << sections[i] \o <<" ">> \o strip(sections[i + 1]) >>
          ELSE <<>>)
           \o chunk_text_sections(sections, i + 2)

\* _chunk_text: the chunks it appends (the ids are hashes of the chunks)
chunk_text(text) ==
    IF HEADING_RE_search(text)
    THEN Only({ (IF strip(sections[1]) # <<>> THEN << strip(sections[1]) >> ELSE <<>>)
                  \o chunk_text_sections(sections, 2)
                : sections \in {HEADING_RE_split(text)} })
    ELSE StrippedNonBlank(PARA_RE_split(text))

\* _flush: the chunk the parts make, if any
flush(parts) ==
    IF strip(Join(<<"\n">>, parts)) # <<>> THEN << strip(Join(<<"\n">>, parts)) >> ELSE <<>>

\* _chunk_docling_doc: the loop over the items with the parts gathered so far
RECURSIVE chunk_docling_items(_, _)
chunk_docling_items(items, parts) ==
    IF items = <<>> THEN flush(parts)
    ELSE IF items[1].header
    THEN flush(parts)
           \o chunk_docling_items(Tail(items),
                                  IF items[1].text # <<>> THEN << strip(items[1].text) >>
                                  ELSE <<>>)
    ELSE chunk_docling_items(Tail(items),
                             IF items[1].text # <<>> /\ strip(items[1].text) # <<>>
                             THEN Append(parts, strip(items[1].text)) ELSE parts)

chunk_docling_doc(doc) == chunk_docling_items(doc.items, <<>>)

\* chunk_documents: the chunks of the documents, in order
RECURSIVE chunk_documents(_)
chunk_documents(docs) ==
    IF docs = <<>> THEN <<>>
    ELSE (IF docs[1].str THEN chunk_text(docs[1].text) ELSE chunk_docling_doc(docs[1]))
           \o chunk_documents(Tail(docs))

StrDoc(text) == [str |-> TRUE, text |-> text, items |-> <<>>]

DoclingDoc(markdown, items) == [str |-> FALSE, text |-> markdown, items |-> items]

\* the loop of run_rag_pipeline that reads the text files
RECURSIVE rag_read_text_files(_)
rag_read_text_files(text_files) ==
    IF text_files = <<>> THEN <<>>
    ELSE (IF strip(text_files[1]) # <<>> THEN << StrDoc(text_files[1]) >> ELSE <<>>)
           \o rag_read_text_files(Tail(text_files))

\* the documents of one converted file that are not blank
RECURSIVE NonBlankDocs(_)
NonBlankDocs(converted) ==
    IF converted = <<>> THEN <<>>
    ELSE (IF strip(converted[1].text) # <<>> THEN << converted[1] >> ELSE <<>>)
           \o NonBlankDocs(Tail(converted))

\* the loop of run_rag_pipeline that converts the VLM files; a file whose
\* conversion raises is reported and skipped
RECURSIVE rag_convert_vlm_files(_)
rag_convert_vlm_files(vlm_files) ==
    IF vlm_files = <<>> THEN <<>>
    ELSE (IF vlm_files[1].raises THEN <<>> ELSE NonBlankDocs(vlm_files[1].docs))
           \o rag_convert_vlm_files(Tail(vlm_files))

\* LlamaCppEmbedder.embed then .dimension: the server answers a request with
\* one vector for each text; the dimension is known once a vector came back
store_in_qdrant(chunks, server) ==
    IF server # "ok" /\ Len(chunks) > 0
    THEN [exc |-> Exc(server, <<>>), embedded |-> 0, stored |-> FALSE]
    ELSE IF Len(chunks) = 0
    THEN [exc |-> Exc("RuntimeError", <<>>), embedded |-> 0, stored |-> FALSE]
    ELSE [exc |-> NoExc, embedded |-> Len(chunks), stored |-> TRUE]

\* run_rag_pipeline from the conversion of the VLM files to the image
rag_work(args, docs0, server, build) ==
    Only({
      IF docs = <<>>
      THEN [docs |-> docs, chunks |-> <<>>, exc |-> Exc("ValueError", <<>>),
            events |-> [i \in DOMAIN args.vlm_files |-> "convert"] \o <<"check_docs">>]
      ELSE Only({
        Only({ [docs |-> docs, chunks |-> chunks,
                exc |-> IF s.exc.type # "none" THEN s.exc
                        ELSE IF build # 0 THEN CalledProcessError(build) ELSE NoExc,
                events |-> [i \in DOMAIN args.vlm_files |-> "convert"]
                             \o <<"check_docs", "chunk", "embed">>
                             \o (IF s.stored THEN <<"build">> ELSE <<>>)]
               : s \in {store_in_qdrant(chunks, server)} })
        : chunks \in {chunk_documents(docs)} })
      : docs \in {docs0 \o rag_convert_vlm_files(args.vlm_files)} })

\* the contents of the text files of the runs
RagTexts ==
    { <<>>, <<" ", "\n">>, <<"a">>, <<"a", "\n", "\n", "a">>, <<"#", " ", "a">>,
      <<"#", "\n">>, <<"a", "\n", "#", " ", "a">>, <<"#", "a">> }

TextFileLists ==
    {<<>>} \cup { <<t>> : t \in RagTexts }
      \cup { << <<" ", "\n">>, <<"a">> >>, << <<"#", "\n">>, <<"#", " ", "a">> >> }

\* what the Docling server makes of the PDF and image files of the runs
DoclingDocs ==
    { DoclingDoc(<<>>, <<>>),
      DoclingDoc(<<"a">>, << [header |-> FALSE, text |-> <<"a">>] >>),
      DoclingDoc(<<"#", " ", "a", "\n", "\n", "a">>,
                 << [header |-> TRUE, text |-> <<"a">>], [header |-> FALSE, text |-> <<"a">>] >>) }

VlmFileLists ==
    {<<>>} \cup { << [raises |-> TRUE, docs |-> <<>>] >> }
      \cup { << [raises |-> FALSE, docs |-> <<d>>] >> : d \in DoclingDocs }

(***************************************************************************)
(* The RAG pipeline                                                        *)
(* The state of a run is a record: where run_rag_pipeline is (pc), the     *)
(* serve args of the two internal servers, the Popen objects it holds, the *)
(* servers that are running, and the engine stop commands issued.          *)
(***************************************************************************)
PortBase == 8080    \* the port the scan starts from
PortSpan == 3       \* the number of ports the scan tries

Ports == PortBase..(PortBase + PortSpan - 1)

\* compute_serving_port without a port set by the user: the first port of the
\* scan that no one listens on and that is not excluded; <<>> stands for None
scan_serving_port(listening, exclude) ==
    LET free == { p \in Ports : p \notin listening /\ p \notin exclude } IN
    IF free = {}
    THEN [port |-> 0, exc |-> Exc("OSError", <<>>)]
    ELSE [port |-> CHOOSE p \in free : \A q \in free : p <= q, exc |-> NoExc]

\* the serve args that are not built yet (docling_serve_args = None)
NoServeArgs == [built |-> FALSE, port |-> 0, name |-> <<>>, container |-> FALSE]

\* _build_serve_args
build_serve_args(args, listening) ==
    Only({ [serve_args |-> [built |-> TRUE, port |-> p.port, name |-> <<>>,
                            container |-> args.container],
            exc |-> p.exc]
           : p \in {scan_serving_port(listening, {})} })

\* _build_embed_serve_args
build_embed_serve_args(args, listening, exclude_ports) ==
    Only({ [serve_args |-> [built |-> TRUE, port |-> p.port, name |-> <<>>,
                            container |-> args.container],
            exc |-> p.exc]
           : p \in {scan_serving_port(listening, exclude_ports)} })

\* run_rag_pipeline without the exclusion of the Docling port
rag_exclude_nothing(docling_serve_args) == {}

\* exclude_ports = [docling_serve_args.port] if docling_serve_args else None
rag_exclude_ports(docling_serve_args) ==
    IF docling_serve_args.built THEN {docling_serve_args.port} ELSE {}

\* needs_vlm = len(vlm_files) > 0
needs_vlm(args) == Len(args.vlm_files) > 0

\* run_rag_pipeline from "prepare servers" to the embedding serve args;
\* listening1 and listening2 are the ports other processes hold at the two scans
rag_prepare(args, listening1, listening2) ==
    Only({
      IF d.exc.type # "none"
      THEN [docling |-> NoServeArgs, embed |-> NoServeArgs, exc |-> d.exc]
      ELSE Only({ [docling |-> d.serve_args, embed |-> e.serve_args, exc |-> e.exc]
                  : e \in {build_embed_serve_args(args, listening2,
                                                  rag_exclude_ports(d.serve_args))} })
      : d \in { IF needs_vlm(args) THEN build_serve_args(args, listening1)
                ELSE [serve_args |-> NoServeArgs, exc |-> NoExc] } })

\* the container name of an internal server
ServerName(who) == <<"ramalama-", who>>

\* serve_nonblocking: with --dryrun nothing is started; in a container the
\* server gets a name, which the serve args keep; it returns the Popen object
serve_nonblocking(who, serve_args, dryrun) ==
    IF dryrun THEN [serve_args |-> serve_args, proc |-> "None", started |-> FALSE]
    ELSE [serve_args |-> IF serve_args.container
                         THEN [serve_args EXCEPT !.name = ServerName(who)]
                         ELSE serve_args,
          proc |-> who, started |-> TRUE]

\* _stop_server: engine stop on the name of a containerised server, else
\* terminate the process if it still runs
stop_server(who, proc, serve_args, l) ==
    IF serve_args.container /\ serve_args.name # <<>>
    THEN [l EXCEPT !.running = @ \ {who}, !.stops = @ \cup {serve_args.name}]
    ELSE IF proc # "None" /\ who \in l.running
    THEN [l EXCEPT !.running = @ \ {who}, !.terminated = @ \cup {who}]
    ELSE l

RagArgs ==
    [container : BOOLEAN, dryrun : BOOLEAN, text_files : TextFileLists,
     vlm_files : VlmFileLists]

\* run_rag_pipeline up to the try block: the scan of the files, the text
\* files, the ports, the embedding model
RagStart ==
    /\ last.cmd = "idle"
    /\ \E args \in RagArgs, listening1 \in SUBSET Ports, listening2 \in SUBSET Ports,
          pull \in {"ok", "ConnectionError"} :
        \E p \in {rag_prepare(args, listening1, listening2)} :
        \E found \in {Len(args.text_files) + Len(args.vlm_files) > 0} :
            last' = [cmd |-> "rag", args |-> args,
                     pc |-> IF ~found \/ p.exc.type # "none" \/ pull # "ok" THEN "returned"
                            ELSE "docling",
                     exc |-> IF ~found THEN Exc("FileNotFoundError", <<>>)
                             ELSE IF p.exc.type # "none" THEN p.exc
                             ELSE IF pull # "ok" THEN Exc(pull, <<>>) ELSE NoExc,
                     docs |-> IF found THEN rag_read_text_files(args.text_files) ELSE <<>>,
                     chunks |-> <<>>,
                     events |-> IF ~found THEN <<>>
                                ELSE [i \in DOMAIN args.text_files |-> "read_text"]
                                       \o (IF p.exc.type = "none" THEN <<"pull_embed">>
                                           ELSE <<>>),
                     docling_serve_args |-> IF found THEN p.docling ELSE NoServeArgs,
                     embed_serve_args |-> IF found THEN p.embed ELSE NoServeArgs,
                     docling_proc |-> "None", embed_proc |-> "None",
                     running |-> {}, started |-> {}, stops |-> {}, terminated |-> {},
                     cleanup |-> "none"]
    /\ UNCHANGED <<store, blobs, engine>>

\* an exception in the try block: the finally block is next
RagRaise(l, exc) == [l EXCEPT !.pc = "stop_embed", !.exc = exc]

\* run_rag_pipeline starting the VLM server whatever the files are
starts_docling_always(l) == TRUE

\* if needs_vlm and docling_serve_args is not None
starts_docling(l) == needs_vlm(l.args) /\ l.docling_serve_args.built

\* the VLM server: pull, serve_nonblocking, _wait_for_server
RagDocling ==
    /\ last.cmd = "rag" /\ last.pc = "docling"
    /\ \/ /\ ~starts_docling(last)
          /\ last' = [last EXCEPT !.pc = "embed"]
       \/ /\ starts_docling(last)
          /\ \/ last' = RagRaise([last EXCEPT !.events = Append(@, "pull_docling")],
                                 Exc("ConnectionError", <<>>))
             \/ \E s \in {serve_nonblocking("docling", last.docling_serve_args,
                                            last.args.dryrun)} :
                 \E wait \in {"ok", "TimeoutError"} :
                   \E l \in {[last EXCEPT !.docling_serve_args = s.serve_args,
                                          !.docling_proc = s.proc,
                                          !.running = IF s.started THEN @ \cup {"docling"} ELSE @,
                                          !.started = IF s.started THEN @ \cup {"docling"} ELSE @,
                                          !.events = @ \o <<"pull_docling", "start_docling">>]} :
                       last' = IF wait = "ok"
                               THEN [l EXCEPT !.pc = "embed",
                                              !.events = Append(@, "healthy_docling")]
                               ELSE RagRaise(l, Exc(wait, <<>>))
    /\ UNCHANGED <<store, blobs, engine>>

\* the embedding server: serve_nonblocking, _wait_for_server
RagEmbed ==
    /\ last.cmd = "rag" /\ last.pc = "embed"
    /\ \E s \in {serve_nonblocking("embed", last.embed_serve_args, last.args.dryrun)} :
        \E wait \in {"ok", "TimeoutError"} :
          \E l \in {[last EXCEPT !.embed_serve_args = s.serve_args,
                                 !.embed_proc = s.proc,
                                 !.running = IF s.started THEN @ \cup {"embed"} ELSE @,
                                 !.started = IF s.started THEN @ \cup {"embed"} ELSE @,
                                 !.events = Append(@, "start_embed")]} :
              last' = IF wait = "ok"
                      THEN [l EXCEPT !.pc = "work", !.events = Append(@, "healthy_embed")]
                      ELSE RagRaise(l, Exc(wait, <<>>))
    /\ UNCHANGED <<store, blobs, engine>>

\* convert, chunk, embed, store, build the image
RagWork ==
    /\ last.cmd = "rag" /\ last.pc = "work"
    /\ \E server \in {"ok", "URLError"}, build \in {0, 125} :
        \E w \in {rag_work(last.args, last.docs, server, build)} :
            last' = [last EXCEPT !.pc = "stop_embed", !.exc = w.exc, !.docs = w.docs,
                                 !.chunks = w.chunks, !.events = @ \o w.events]
    /\ UNCHANGED <<store, blobs, engine>>

\* Ctrl-C in the try block: except KeyboardInterrupt raises SystemExit(130)
RagInterrupt ==
    /\ last.cmd = "rag" /\ last.pc \in {"docling", "embed", "work"}
    /\ last' = RagRaise(last, Exc("SystemExit", <<>>))
    /\ UNCHANGED <<store, blobs, engine>>

\* finally: _stop_server(embed_proc, embed_serve_args)
RagStopEmbed ==
    /\ last.cmd = "rag" /\ last.pc = "stop_embed"
    /\ last' = [stop_server("embed", last.embed_proc, last.embed_serve_args, last)
                  EXCEPT !.pc = "stop_docling"]
    /\ UNCHANGED <<store, blobs, engine>>

\* finally: if docling_serve_args is not None: _stop_server(docling_proc, ...)
RagStopDocling ==
    /\ last.cmd = "rag" /\ last.pc = "stop_docling"
    /\ last' = [(IF last.docling_serve_args.built
                 THEN stop_server("docling", last.docling_proc, last.docling_serve_args, last)
                 ELSE last)
                  EXCEPT !.pc = "returned", !.cleanup = "done"]
    /\ UNCHANGED <<store, blobs, engine>>

\* Ctrl-C in the finally block: KeyboardInterrupt leaves run_rag_pipeline
RagInterruptCleanup ==
    /\ last.cmd = "rag" /\ last.pc \in {"stop_embed", "stop_docling"}
    /\ last' = [last EXCEPT !.pc = "returned", !.cleanup = "interrupted",
                            !.exc = Exc("KeyboardInterrupt", <<>>)]
    /\ UNCHANGED <<store, blobs, engine>>

\* a native server ends on its own
RagServerExits ==
    /\ last.cmd = "rag" /\ last.pc # "returned" /\ ~last.args.container
    /\ \E who \in last.running : last' = [last EXCEPT !.running = @ \ {who}]
    /\ UNCHANGED <<store, blobs, engine>>

\* the process ends
RagExit ==
    /\ last.cmd = "rag" /\ last.pc = "returned"
    /\ last' = Idle
    /\ UNCHANGED <<store, blobs, engine>>

NextRag ==
    \/ RagStart \/ RagDocling \/ RagEmbed \/ RagWork \/ RagInterrupt
    \/ RagStopEmbed \/ RagStopDocling \/ RagInterruptCleanup \/ RagServerExits \/ RagExit

SpecRag == InitUtil /\ [][NextRag]_vars

(***************************************************************************)
(* The health-check wait                                                   *)
(* Time is the monotonic clock in seconds, 0 when _wait_for_server is      *)
(* called.  A probe takes up to ProbeTimeout seconds.                      *)
(***************************************************************************)
MaxTimeout == 3     \* the timeouts tried are 0..MaxTimeout
ProbeTimeout == 2   \* HTTPConnection(host, port, timeout=2)
SleepTime == 1      \* time.sleep(1)

\* what a probe can end with: a status, or an exception of the socket layer
ProbeOutcomes == {"200", "503", "ConnectionRefusedError", "HTTPException", "OSError"}

\* after a probe the loop returns on any answer
wait_after_probe_any_status(outcome) ==
    IF outcome \in {"200", "503"} THEN "return" ELSE "sleep"

\* the body of the loop after a probe: return on status 200; the exceptions
\* ConnectionError, HTTPException and OSError are passed over; sleep
wait_after_probe(outcome) ==
    IF outcome = "200" THEN "return"
    ELSE IF outcome = "503" THEN "sleep"
    ELSE IF IsA(outcome, "ConnectionError") \/ outcome = "HTTPException"
            \/ IsA(outcome, "OSError")
    THEN "sleep"
    ELSE "raise"

\* _wait_for_server(host, port, timeout): end = time.monotonic() + timeout
WaitStart ==
    /\ last.cmd = "idle"
    /\ \E timeout \in 0..MaxTimeout :
        last' = [cmd |-> "wait", pc |-> "loop", timeout |-> timeout, now |-> 0,
                 end |-> 0 + timeout, seen |-> {}, probe_start |-> 0, ok_at |-> -1,
                 ret |-> "none", exc |-> NoExc]
    /\ UNCHANGED <<store, blobs, engine>>

\* while time.monotonic() < end ... else raise TimeoutError
WaitLoop ==
    /\ last.cmd = "wait" /\ last.pc = "loop"
    /\ last' = IF last.now < last.end
               THEN [last EXCEPT !.pc = "probe", !.probe_start = last.now]
               ELSE [last EXCEPT !.pc = "done", !.exc = Exc("TimeoutError", <<>>)]
    /\ UNCHANGED <<store, blobs, engine>>

\* one GET /health
WaitProbe ==
    /\ last.cmd = "wait" /\ last.pc = "probe"
    /\ \E outcome \in ProbeOutcomes, d \in 0..ProbeTimeout :
        \E next \in {wait_after_probe(outcome)} :
          last' = [last EXCEPT !.now = @ + d,
                               !.seen = @ \cup {outcome},
                               !.ok_at = IF outcome = "200" THEN last.now + d ELSE @,
                               !.pc = IF next = "sleep" THEN "sleep" ELSE "done",
                               !.ret = IF next = "return" THEN "None" ELSE @,
                               !.exc = IF next = "raise" THEN Exc(outcome, <<>>) ELSE @]
    /\ UNCHANGED <<store, blobs, engine>>

\* time.sleep(1)
WaitSleep ==
    /\ last.cmd = "wait" /\ last.pc = "sleep"
    /\ last' = [last EXCEPT !.now = @ + SleepTime, !.pc = "loop"]
    /\ UNCHANGED <<store, blobs, engine>>

\* the caller goes on
WaitExit ==
    /\ last.cmd = "wait" /\ last.pc = "done"
    /\ last' = Idle
    /\ UNCHANGED <<store, blobs, engine>>

NextWait == WaitStart \/ WaitLoop \/ WaitProbe \/ WaitSleep \/ WaitExit

\* the thread that waits keeps running: a probe ends within its socket
\* timeout and a sleep ends
SpecWait ==
    /\ InitUtil
    /\ [][NextWait]_vars
    /\ WF_vars(WaitLoop \/ WaitProbe \/ WaitSleep)

(***************************************************************************)
(* The mounts and the compose file                                         *)
(* A mount is a record: its type, source, destination and the options that *)
(* follow them in the argument the engine gets.                            *)
(***************************************************************************)
MNT_DIR == <<"/", "m", "n", "t", "/", "m", "o", "d", "e", "l", "s">>

\* OCI.mount_cmd with an image mount that is left writable
OCI_mount_cmd_image_rw(self) ==
    IF self.artifact
    THEN [type |-> "artifact", src |-> self.model, destination |-> MNT_DIR, options |-> <<>>]
    ELSE [type |-> "image", src |-> self.model, destination |-> MNT_DIR,
          options |-> <<"subpath=/models">>]

\* OCI.mount_cmd
OCI_mount_cmd(self) ==
    IF self.artifact
    THEN [type |-> "artifact", src |-> self.model, destination |-> MNT_DIR, options |-> <<>>]
    ELSE [type |-> "image", src |-> self.model, destination |-> MNT_DIR,
          options |-> <<"subpath=/models", "rw=false">>]

\* str.removeprefix
removeprefix(s, p) == IF StartsWith(s, p) THEN SubSeq(s, Len(p) + 1, Len(s)) ELSE s

\* the device nodes the compose generator looks for, in its order
ComposeDevices == <<"/dev/dri", "/dev/kfd", "/dev/accel">>

S_file == <<"/", "f">>      \* the suffix of the paths in the container

\* Compose.__init__: the paths of the model, the chat template and the
\* multimodal projector (<<>> for a pair that is None)
Compose_init(model_paths, chat_template_paths, mmproj_paths, args) ==
    [src_model_path |-> removeprefix(model_paths[1], S_oci \o S_sep),
     dest_model_path |-> model_paths[2],
     src_chat_template_path |-> IF chat_template_paths = <<>> THEN <<>> ELSE chat_template_paths[1],
     dest_chat_template_path |-> IF chat_template_paths = <<>> THEN <<>> ELSE chat_template_paths[2],
     src_mmproj_path |-> IF mmproj_paths = <<>> THEN <<>> ELSE mmproj_paths[1],
     dest_mmproj_path |-> IF mmproj_paths = <<>> THEN <<>> ELSE mmproj_paths[2],
     args |-> args]

\* one line "src:dest:ro" of the volumes
ComposeVolume(src, dest) ==
    [type |-> "volume", src |-> src, destination |-> dest, options |-> <<"ro">>]

\* Compose._gen_volumes
Compose_gen_volumes(self, host) ==
    <<ComposeVolume(self.src_model_path, self.dest_model_path)>>
    \o (IF self.src_chat_template_path # <<>> /\ self.src_chat_template_path \in host.files
        THEN <<ComposeVolume(self.src_chat_template_path, self.dest_chat_template_path)>>
        ELSE <<>>)
    \o (IF self.src_mmproj_path # <<>> /\ self.src_mmproj_path \in host.files
        THEN <<ComposeVolume(self.src_mmproj_path, self.dest_mmproj_path)>>
        ELSE <<>>)

\* Compose._gen_devices: the device nodes that exist, as "dev:dev" lines
RECURSIVE Compose_gen_devices_loop(_, _)
Compose_gen_devices_loop(paths, host) ==
    IF paths = <<>> THEN <<>>
    ELSE (IF paths[1] \in host.devs THEN <<<<paths[1], paths[1]>>>> ELSE <<>>)
         \o Compose_gen_devices_loop(Tail(paths), host)

Compose_gen_devices(self, host) == Compose_gen_devices_loop(ComposeDevices, host)

\* Compose.generate: the volumes and the devices of the service
Compose_generate(self, host) ==
    [volumes |-> Compose_gen_volumes(self, host),
     devices |-> Compose_gen_devices(self, host)]

\* the hosts: which device nodes and which files exist
ComposeHosts ==
    [devs : SUBSET Range(ComposeDevices),
     files : SUBSET {S_slash \o S_t, S_slash \o S_p}]

\* --device is absent, "none", or a device
ComposeArgs == [device : {<<>>, <<"none">>, <<"/dev/dri">>}]

ComposeModelPaths ==
    { <<S_slash \o S_a, MNT_DIR \o S_file>>, <<S_oci \o S_sep \o S_o, MNT_DIR>> }

\* ramalama serve --generate compose
ComposeGenerate ==
    /\ last.cmd = "idle"
    /\ \E mp \in ComposeModelPaths,
          ct \in {<<>>, <<S_slash \o S_t, MNT_DIR \o S_slash \o S_t>>},
          mm \in {<<>>, <<S_slash \o S_p, MNT_DIR \o S_slash \o S_p>>},
          args \in ComposeArgs, host \in ComposeHosts :
        last' = [cmd |-> "compose", args |-> args, plan |-> <<>>,
                 ret |-> [host |-> host]
                         @@ Compose_generate(Compose_init(mp, ct, mm, args), host),
                 exit |-> main_exit(NoExc)] @@ Idle
    /\ UNCHANGED <<store, blobs, engine>>

\* the mount of an OCI model, an image or an artifact
OciMountCmd ==
    /\ last.cmd = "idle"
    /\ \E artifact \in BOOLEAN, name \in {S_o, S_oci \o S_sep \o S_o} :
        \E self \in {OCI_init(name, TRUE)} :
          last' = [cmd |-> "mount_cmd", args |-> [artifact |-> artifact],
                   plan |-> <<OCI_mount_cmd([model |-> self.model, artifact |-> artifact])>>,
                   exit |-> main_exit(NoExc)] @@ Idle
    /\ UNCHANGED <<store, blobs, engine>>

NextGen == ComposeGenerate \/ OciMountCmd \/ ServeRouter \/ Exit

SpecGen == InitRace /\ [][NextGen]_vars

(***************************************************************************)
(* The runtime image: parse_args_from_cmd, accel_image                     *)
(* An image reference is a string; the host says whether the versioned     *)
(* image is in the engine's storage and whether a pull of it succeeds.     *)
(***************************************************************************)
S_image == <<"q", "/", "r">>            \* an image name without tag
S_tag == <<":", "t">>                   \* a tag
S_digest == <<"@", "s", ":", "d">>      \* a digest
S_dot == <<".">>

\* the versions of the program tried
Versions == { <<"0", ".", "1", ".", "2">>, <<"0">> }

\* minor_release
minor_release(version) ==
    Only({ IF vers = <<"0">> THEN S_latest ELSE vers
           : vers \in { Join(S_dot, Only({ SubSeq(version_split, 1,
                                                 IF Len(version_split) < 2
                                                 THEN Len(version_split) ELSE 2)
                                          : version_split \in {Split(version, S_dot)} })) } })

\* tagged_image that adds the release to every image
tagged_image_always(image, version) == image \o S_colon \o minor_release(version)

\* tagged_image
tagged_image(image, version) ==
    IF Len(Split(image, S_colon)) > 1 THEN image
    ELSE image \o S_colon \o minor_release(version)

\* attempt_to_use_versioned: inspect, then pull if should_pull; log is the
\* engine subcommands it ran
attempt_to_use_versioned(conman, image, vers, quiet, should_pull, host) ==
    IF host.local THEN [ret |-> TRUE, log |-> <<"inspect">>]
    ELSE IF ~should_pull THEN [ret |-> FALSE, log |-> <<"inspect">>]
    ELSE [ret |-> host.registry, log |-> <<"inspect", "pull">>]

\* accel_image
accel_image(config, host) ==
    IF config.image_set
    THEN [image |-> tagged_image(config.image, host.version), log |-> <<>>]
    ELSE
    Only({
      IF Contains(image, S_colon) THEN [image |-> image, log |-> <<>>]
      ELSE IF ~config.engine THEN [image |-> image \o S_colon \o S_latest, log |-> <<>>]
      ELSE Only({ [image |-> IF a.ret THEN image \o S_colon \o minor_release(host.version)
                             ELSE image \o S_colon \o S_latest,
                   log |-> a.log]
                  : a \in { attempt_to_use_versioned(config.engine, image,
                                minor_release(host.version), TRUE,
                                config.pull \in {"always", "missing"} /\ ~config.dryrun,
                                host) } })
      : image \in { IF host.gpu_type \in DOMAIN config.images
                    THEN config.images[host.gpu_type] ELSE config.default_image } })

\* the options of a command line that parse_args_from_cmd looks for
DryrunFlags == {"--dryrun", "--dry-run", "--generate", "--generate=quadlet"}

\* get_initial_parser().parse_known_args(cmd): --dryrun and --dry-run are
\* options of the initial parser, --generate is not
initial_args(argv) == [dryrun |-> argv \cap {"--dryrun", "--dry-run"} # {}]

\* parse_args_from_cmd up to get_parser(): config.dryrun is set from the
\* command line, then every attribute of the config that the initial
\* arguments have is overwritten with their value
parse_args_config(argv, config) ==
    Only({ [c EXCEPT !.dryrun = initial_args(argv).dryrun]
           : c \in { IF argv \cap DryrunFlags # {}
                     THEN [config EXCEPT !.dryrun = TRUE] ELSE config } })

\* parse_args_from_cmd: get_parser() asks for the default image
parse_args_from_cmd(argv, config, host) ==
    Only({ [config |-> c] @@ accel_image(c, host)
           : c \in {parse_args_config(argv, config)} })

\* an image reference made of a name and a tag, a digest or nothing
ImageSuffixes == {<<>>, S_tag, S_digest}

\* the configurations: the image set by the configuration file or by the
\* environment, or not set; the table of images by GPU; the pull policy
ImageConfigs ==
    { [image_set |-> src # "none", source |-> src, image |-> S_image \o sfx,
       images |-> [CUDA_VISIBLE_DEVICES |-> S_image \o tsfx],
       default_image |-> S_image \o tsfx, table_suffix |-> tsfx, suffix |-> sfx,
       pull |-> pull, dryrun |-> FALSE, engine |-> eng]
      : src \in {"none", "config", "env"}, sfx \in ImageSuffixes, tsfx \in ImageSuffixes,
        pull \in {"always", "missing", "never"}, eng \in BOOLEAN }

ImageHosts ==
    [local : BOOLEAN, registry : BOOLEAN, gpu_type : {"", "CUDA_VISIBLE_DEVICES"},
     version : Versions]

\* one command line is parsed
ParseArgs ==
    /\ last.cmd = "idle"
    /\ \E argv \in SUBSET DryrunFlags, config \in ImageConfigs, host \in ImageHosts :
        \E r \in {parse_args_from_cmd(argv, config, host)} :
            last' = [cmd |-> "parse_args", args |-> [argv |-> argv, config |-> config, host |-> host],
                     ret |-> r, exit |-> main_exit(NoExc)] @@ Idle
    /\ UNCHANGED <<store, blobs, engine>>

NextImage == ParseArgs \/ Exit

SpecImage == InitUtil /\ [][NextImage]_vars

(***************************************************************************)
(* The claims                                                              *)
(***************************************************************************)
IsRmAll(l) == l.cmd = "rm" /\ l.args.all /\ l.args.MODEL = <<>>

IsRmNamed(l) == l.cmd = "rm" /\ ~l.args.all /\ Len(l.args.MODEL) > 0

\* the models of the attempts of a run that ended with the model still there
NotRemoved(tried) ==
    SelectSeq([i \in DOMAIN tried |-> tried[i].model],
              LAMBDA n : \E i \in DOMAIN tried : tried[i].model = n /\ ~tried[i].removed)

\* the models of the attempts of a run that raised
Raised(tried) ==
    SelectSeq([i \in DOMAIN tried |-> tried[i].model],
              LAMBDA n : \E i \in DOMAIN tried : tried[i].model = n /\ tried[i].how # "continue")

\* what one rm --all does to the disk: every listed model is attempted, in the
\* order of the listing, and exactly the models whose attempt removed them are
\* gone from the store and from the engine
RmAllEffect ==
    LET tried   == last'.tried
        removed == { tried[i].model : i \in { j \in DOMAIN tried : tried[j].removed } }
    IN  /\ Range(last'.order) = ListingNames(last'.args)
        /\ [i \in DOMAIN tried |-> tried[i].model] = last'.order
        /\ store' = { e \in store : CanonicalRef(e) \notin removed }
        /\ \A k \in DOMAIN engine :
              engine'[k] = IF (S_oci \o S_sep \o k[1]) \in removed THEN "absent" ELSE engine[k]

\* C1: rm --all attempts every model of the listing and goes on after a model
\* whose removal fails; the models removed are gone, every other model is as it
\* was, and the command ends with an error that names exactly the models that
\* were not removed, so it ends without an error iff every model was removed.
C1_Step ==
    (last.cmd = "idle" /\ IsRmAll(last')) =>
        /\ RmAllEffect
        /\ IF NotRemoved(last'.tried) # <<>>
           THEN last'.exc = [type |-> "Exception", names |-> NotRemoved(last'.tried)]
           ELSE last'.exc = NoExc

C1_RmAll == [][C1_Step]_vars

\* C1 without --ignore: the same statement holds of every rm --all that is not
\* given --ignore
C1_StepNoIgnore ==
    (last.cmd = "idle" /\ IsRmAll(last') /\ ~last'.args.ignore) => C1_Step

C1_RmAllNoIgnore == [][C1_StepNoIgnore]_vars

\* C1 with --ignore: the error names exactly the models whose attempt raised
C1_StepRaised ==
    (last.cmd = "idle" /\ IsRmAll(last')) =>
        /\ RmAllEffect
        /\ \A i \in DOMAIN last'.tried : last'.tried[i].how # "continue" => ~last'.tried[i].removed
        /\ IF Raised(last'.tried) # <<>>
           THEN last'.exc = [type |-> "Exception", names |-> Raised(last'.tried)]
           ELSE last'.exc = NoExc

C1_RmAllRaised == [][C1_StepRaised]_vars

\* a rm --all of three models of which the second fails
C1_MiddleFails ==
    /\ IsRmAll(last)
    /\ ~last.args.ignore
    /\ Len(last.tried) = 3
    /\ last.tried[1].removed
    /\ ~last.tried[2].removed
    /\ last.tried[3].removed
    /\ last.exc.names = <<last.tried[2].model>>

\* the name under which the listing shows what rm MODEL removes
ListedAs(model) ==
    LET m == shortnames_resolve(model) IN
    IF HasSchemePrefix(m) /\ ~StartsWith(m, S_oci \o S_sep)
    THEN New(m, [engine |-> TRUE]).model
    ELSE S_oci \o S_sep \o OCI_init(m, TRUE).model

\* the names of a list --all of the disk as it is
ListNamesNow ==
    { e.name : e \in Range(list_models_from_store(
                   CHOOSE q \in Perms(list_models(Disk, TRUE, TRUE)) : TRUE,
                   ListArgs(TRUE, "name", "desc", TRUE, TRUE))) }

NotListed(model) ==
    /\ ListedAs(model) \notin ListNamesNow
    /\ ListedAs(model) \o S_partial \notin ListNamesNow

\* C2: when rm of named models without --ignore ends without an error, every
\* named model was removed by it, and a list that follows shows none of them.
C2_RmRemoves ==
    (IsRmNamed(last) /\ ~last.args.ignore /\ last.exc.type = "none") =>
        /\ Len(last.tried) = Len(last.args.MODEL)
        /\ \A i \in DOMAIN last.tried : last.tried[i].removed
        /\ \A i \in DOMAIN last.args.MODEL : NotListed(last.args.MODEL[i])

\* C2, the half about the listing alone: after such a rm no named model is listed
C2_NotListedAfter ==
    (IsRmNamed(last) /\ ~last.args.ignore /\ last.exc.type = "none") =>
        \A i \in DOMAIN last.args.MODEL : NotListed(last.args.MODEL[i])

\* C3: with --ignore, a rm during which an engine subcommand failed for another
\* reason than a missing model ends with an error.
C3_IgnoreOnlyNotFound ==
    (IsRmNamed(last) /\ last.args.ignore /\ \E i \in DOMAIN last.log : last.log[i].rc = 125)
        => last.exc.type # "none"

Subs(log) == [i \in DOMAIN log |-> log[i].sub]

\* C4: OCI.remove issues manifest rm, rmi, artifact rm in this order, each one
\* only after every earlier one failed; it returns True when the last one issued
\* succeeded and raises KeyError exactly when all three failed.
C4_OciRemoveOrder ==
    last.cmd = "OCI.remove" =>
        LET log == last.log
            n   == Len(log)
        IN  /\ n \in 1..3
            /\ Subs(log) = SubSeq(<<"manifest rm", "rmi", "artifact rm">>, 1, n)
            /\ \A i \in 1..(n - 1) : log[i].rc # 0
            /\ last.exc.type \in {"none", "KeyError"}
            /\ (last.exc.type = "none" /\ last.ret = TRUE) <=> log[n].rc = 0
            /\ last.exc.type = "KeyError" <=> (n = 3 /\ \A i \in 1..3 : log[i].rc # 0)

\* an OCI.remove that only artifact rm satisfied
C4_ArtifactRemoved ==
    /\ last.cmd = "OCI.remove"
    /\ Len(last.log) = 3
    /\ last.log[3].rc = 0
    /\ last.ret = TRUE

IsServeModel(l) == l.cmd = "serve" /\ l.args.MODEL # NoModel

IsRouter(l) == l.cmd = "serve" /\ l.args.MODEL = NoModel

\* C5: in serve MODEL, when the try block raised KeyError, the OCI fallback is
\* attempted iff MODEL has no "://"; when it succeeds the OCI transport of MODEL
\* is served and MODEL becomes oci://MODEL; when it fails, or was not attempted,
\* the KeyError of the try block leaves serve_cli and nothing is served.
C5_OciFallback ==
    (IsServeModel(last) /\ IsA(last.tryexc.type, "KeyError")) =>
        /\ ("create_oci" \in Range(last.steps)) <=> ~Contains(last.args.MODEL, S_sep)
        /\ IF last.exc.type = "none"
           THEN /\ "create_oci" \in Range(last.steps)
                /\ Len(last.served) = 1
                /\ last.served[1].kind = "oci"
                /\ last.served[1].model = OCI_init(last.args.MODEL, TRUE).model
                /\ last.MODEL = S_oci \o S_sep \o last.args.MODEL
                /\ last.steps[Len(last.steps)] = "serve"
           ELSE /\ last.exc = last.tryexc
                /\ last.served = <<>>
                /\ "serve" \notin Range(last.steps)
                /\ last.MODEL = last.args.MODEL

\* a serve of a name without scheme that the fallback served
C5_FallbackServed ==
    /\ IsServeModel(last)
    /\ last.tryexc.type = "KeyError"
    /\ last.exc.type = "none"
    /\ last.MODEL = S_oci \o S_sep \o S_o

\* a serve of a reference with a scheme that ended with the KeyError
C5_SchemeRaised ==
    /\ IsServeModel(last)
    /\ last.tryexc.type = "KeyError"
    /\ Contains(last.args.MODEL, S_sep)
    /\ last.exc = last.tryexc

\* a serve of a name without scheme whose fallback failed
C5_FallbackFailed ==
    /\ IsServeModel(last)
    /\ last.tryexc.type = "KeyError"
    /\ "ensure_oci" \in Range(last.steps)
    /\ last.exc = last.tryexc

\* C6: serve without a MODEL and without a container raises
\* NotImplementedError, which main turns into ENOSYS, before the port is
\* computed, the store enumerated or an engine command built or run.
C6_NativeRouter ==
    (IsRouter(last) /\ ~last.args.container) =>
        /\ last.exc.type = "NotImplementedError"
        /\ last.exit = [code |-> "ENOSYS", printed |-> TRUE]
        /\ last.steps = <<>>
        /\ last.plan = <<>>

\* a native router run over a store that holds models
C6_NativeRouterRefused ==
    /\ IsRouter(last)
    /\ ~last.args.container
    /\ store # {}
    /\ blobs = AllBlobs(store)
    /\ last.exit.code = "ENOSYS"

\* the ref has a file of role model with a GGUF payload, its blob on disk
HasGgufModel(e) ==
    \E i \in DOMAIN e.files :
        /\ e.files[i].type = "model"
        /\ e.files[i].gguf
        /\ <<e.root, sanitize_filename(e.files[i].hash)>> \in blobs

MountsOf(e, plan) == { i \in DOMAIN plan : plan[i].src[1] = e.root }

\* C7: the plan of the router has exactly one bind mount for every ref with a
\* GGUF file of role model and none for any other ref; the router finds no
\* model only when no ref has one.
C7_OneMountPerGgufRef ==
    (IsRouter(last) /\ last.args.container /\ last.exc.type \in {"none", "IndexError"}) =>
        \A e \in store :
            Cardinality(MountsOf(e, last.plan)) = IF HasGgufModel(e) THEN 1 ELSE 0

\* C8: no two bind mounts of a router plan have the same destination.
C8_AliasesDistinct ==
    IsRouter(last) =>
        \A i, j \in DOMAIN last.plan :
            last.plan[i].destination = last.plan[j].destination => i = j

\* C9: every source of a bind mount of the router exists when the engine is
\* launched, whatever a removal does meanwhile.
C9_BlobsExistAtLaunch ==
    (IsRouter(last) /\ last.pc = "launched") => last.missing = {}

\* C10: list without --all returns no model with a partial file; with --all it
\* returns such a model once, its name followed by " (partial)"; a model without
\* partial file is returned once under its plain name, with and without --all.
C10_ListPartial ==
    last.cmd = "list" =>
        LET models == list_models(Disk, last.args.engine, last.args.container)
            names  == [i \in DOMAIN last.ret |-> last.ret[i].name]
            Count(n) == Cardinality({ i \in DOMAIN names : names[i] = n })
        IN  /\ \A m \in models :
                  IF AnyPartial(m.files)
                  THEN /\ Count(m.name) = 0
                       /\ Count(m.name \o S_partial) = IF last.args.all THEN 1 ELSE 0
                  ELSE /\ Count(m.name) = 1
                       /\ Count(m.name \o S_partial) = 0
            /\ \A i \in DOMAIN names :
                  \E m \in models : names[i] \in {m.name, m.name \o S_partial}

\* a list without --all of a store with a partial and a complete model
C10_PartialHidden ==
    /\ last.cmd = "list"
    /\ ~last.args.all
    /\ \E e \in store : AnyPartial(e.files)
    /\ \E e \in store : ~AnyPartial(e.files)
    /\ Len(last.ret) >= 1

\* a list --all that shows a partial model
C10_PartialShown ==
    /\ last.cmd = "list"
    /\ last.args.all
    /\ \E i \in DOMAIN last.ret : \E e \in store :
          AnyPartial(e.files) /\ last.ret[i].name = CanonicalRef(e) \o S_partial

IsVerify(l) == l.cmd = "verify_checksum"

\* what follows "sha256-" or "sha256:" in the name of the file; <<>> wraps it,
\* and there is none when the name has neither prefix
EmbeddedChecksum(filename) ==
    LET fn_base == basename(filename) IN
    IF StartsWith(fn_base, S_sha256 \o S_colon) \/ StartsWith(fn_base, S_sha256 \o S_dash)
    THEN <<SubSeq(fn_base, Len(S_sha256) + 2, Len(fn_base))>>
    ELSE <<>>

\* C11: for an existing file named sha256- or sha256: followed by 64
\* characters, verify_checksum returns True when the SHA-256 digest of the
\* content is those 64 characters, and False when it is not.
C11_VerifyChecksum ==
    (/\ IsVerify(last)
     /\ last.args.exists
     /\ EmbeddedChecksum(last.args.filename) # <<>>
     /\ Len(EmbeddedChecksum(last.args.filename)[1]) = ChecksumLen) =>
        /\ last.exc = NoExc
        /\ last.ret = IF sha256_hexdigest(last.args.content)
                          = EmbeddedChecksum(last.args.filename)[1]
                      THEN "True" ELSE "False"

\* C11 for the names whose 64 characters hold no "-" and no ":"
C11_VerifyChecksumNoSeparator ==
    (/\ IsVerify(last)
     /\ last.args.exists
     /\ EmbeddedChecksum(last.args.filename) # <<>>
     /\ Len(EmbeddedChecksum(last.args.filename)[1]) = ChecksumLen
     /\ ~Contains(EmbeddedChecksum(last.args.filename)[1], S_dash)
     /\ ~Contains(EmbeddedChecksum(last.args.filename)[1], S_colon)) =>
        /\ last.exc = NoExc
        /\ last.ret = IF sha256_hexdigest(last.args.content)
                          = EmbeddedChecksum(last.args.filename)[1]
                      THEN "True" ELSE "False"

\* an existing file whose name carries the digest of its content
C11_DigestMatches ==
    /\ IsVerify(last)
    /\ last.args.exists
    /\ last.args.content = S_a
    /\ last.ret = "True"

\* C12: verify_checksum raises, and returns no boolean, for every path whose
\* file name starts with neither sha256- nor sha256:, and for every path whose
\* embedded checksum is not 64 characters long.
C12_VerifyChecksumBadName ==
    (/\ IsVerify(last)
     /\ \/ EmbeddedChecksum(last.args.filename) = <<>>
        \/ Len(EmbeddedChecksum(last.args.filename)[1]) # ChecksumLen) =>
        /\ last.exc.type = "ValueError"
        /\ last.ret = "none"

\* C12 for the existing files whose name has no second separator
C12_BadNameOfExistingFile ==
    (/\ IsVerify(last)
     /\ last.args.exists
     /\ \/ EmbeddedChecksum(last.args.filename) = <<>>
        \/ /\ Len(EmbeddedChecksum(last.args.filename)[1]) # ChecksumLen
           /\ ~Contains(EmbeddedChecksum(last.args.filename)[1], S_dash)
           /\ ~Contains(EmbeddedChecksum(last.args.filename)[1], S_colon)) =>
        /\ last.exc.type = "ValueError"
        /\ last.ret = "none"

IsMain(l) == l.cmd = "main"

\* the exit code and whether a message is printed, per kind of error
ExitOfKind(exc) ==
    LET t == exc.type IN
    IF t = "FileNotFoundError" THEN <<ENOENT, TRUE>>
    ELSE IF t \in {"HTTPError", "ConnectionError", "BrokenPipeError", "ConnectionRefusedError",
                   "IndexError", "KeyError", "ValueError", "JSONDecodeError",
                   "UnicodeDecodeError", "NoRefFileFound"}
    THEN <<EINVAL, TRUE>>
    ELSE IF t = "NotImplementedError" THEN <<ENOSYS, TRUE>>
    ELSE IF t = "TimeoutExpired" THEN <<ETIMEDOUT, TRUE>>
    ELSE IF t = "CalledProcessError" THEN <<exc.returncode, TRUE>>
    ELSE IF t = "EndianMismatchError" THEN <<1, FALSE>>
    ELSE IF t \in {"OSError", "PermissionError", "TimeoutError", "URLError"}
    THEN <<EIO, TRUE>>
    ELSE <<>>

\* C13: main ends a command that raised with the exit code of the kind of the
\* error: ENOENT for a file not found; EINVAL for HTTP, connection, index, key
\* and value errors and a missing ref file; ENOSYS for not implemented;
\* ETIMEDOUT for a subprocess timeout; the return code of a failed subprocess;
\* 1, with nothing printed, for an endian mismatch; EIO for any other I/O error.
C13_ExitCodes ==
    (IsMain(last) /\ ExitOfKind(last.args) # <<>>) =>
        /\ last.ret = ExitOfKind(last.args)[1]
        /\ last.exit.printed = ExitOfKind(last.args)[2]

\* a connection error, which is an I/O error too, ends with EINVAL
C13_ConnectionError ==
    /\ IsMain(last)
    /\ last.args.type = "BrokenPipeError"
    /\ last.ret = EINVAL

\* a failed subprocess ends main with its return code
C13_ReturnCode ==
    /\ IsMain(last)
    /\ last.args.type = "CalledProcessError"
    /\ last.ret = 125

IsRag(l) == l.cmd = "rag"

\* C14: when the pipeline needs the Docling server and the embedding server,
\* the port of the embedding server is not the port of the Docling server.
C14_PortsDiffer ==
    (/\ IsRag(last)
     /\ last.docling_serve_args.built
     /\ last.embed_serve_args.built
     /\ last.pc # "returned") =>
        /\ last.embed_serve_args.port \in Ports
        /\ last.docling_serve_args.port \in Ports
        /\ last.embed_serve_args.port # last.docling_serve_args.port

\* both servers launched, the embedding server on the port after Docling's
C14_BothServers ==
    /\ IsRag(last)
    /\ last.started = {"docling", "embed"}
    /\ last.docling_serve_args.port = PortBase
    /\ last.embed_serve_args.port = PortBase + 1

\* C15: when run_rag_pipeline is left, no internal server it started is still
\* running, and every containerised server it started was stopped by the
\* engine's stop command on its name.
C15_ServersStopped ==
    (IsRag(last) /\ last.pc = "returned") =>
        /\ last.running = {}
        /\ last.args.container => \A who \in last.started : ServerName(who) \in last.stops

\* C15 for the runs whose finally block is not interrupted
C15_ServersStoppedAfterCleanup ==
    (IsRag(last) /\ last.pc = "returned" /\ last.cleanup # "interrupted") =>
        /\ last.running = {}
        /\ last.args.container => \A who \in last.started : ServerName(who) \in last.stops

\* a run in containers that started both servers and stopped both
C15_BothStopped ==
    /\ IsRag(last)
    /\ last.pc = "returned"
    /\ last.args.container
    /\ last.started = {"docling", "embed"}
    /\ last.stops = {ServerName("docling"), ServerName("embed")}

IsWait(l) == l.cmd = "wait"

WaitDone == IsWait(last) /\ last.pc = "done"

\* C16 as stated: the wait returns normally only after a probe answered 200,
\* no error of a probe propagates, and when no probe answered 200 before the
\* deadline the wait ends with TimeoutError.
C16_WaitBeforeDeadline ==
    WaitDone =>
        /\ last.ret = "None" => "200" \in last.seen
        /\ last.exc.type \in {"none", "TimeoutError"}
        /\ ~(last.ok_at >= 0 /\ last.ok_at < last.end) => last.exc.type = "TimeoutError"

\* what holds when a wait has ended
C16_WaitSafety ==
    WaitDone =>
        /\ last.ret = "None" <=> "200" \in last.seen
        /\ last.ret = "None" => last.exc.type = "none" /\ last.probe_start < last.end
        /\ last.ret # "None" => last.exc.type = "TimeoutError" /\ last.now >= last.end
        /\ last.exc.type \in {"none", "TimeoutError"}

\* C16, with the deadline applied to the start of a probe: the wait returns
\* normally only after a probe answered 200, errors of a probe are retried and
\* never propagate, when no probe that started before the deadline answered
\* 200 the wait ends with TimeoutError, and every wait ends.
C16_Wait == [](C16_WaitSafety) /\ (IsWait(last) ~> WaitDone)

\* a wait that retried a refused connection and an HTTP error, then timed out
C16_RetriedThenTimeout ==
    /\ WaitDone
    /\ last.exc.type = "TimeoutError"
    /\ {"ConnectionRefusedError", "HTTPException"} \subseteq last.seen

\* a wait that returned on a 200 that came after the deadline
C16_LateAnswer ==
    /\ WaitDone
    /\ last.ret = "None"
    /\ last.ok_at >= last.end

IsPostParse(l) == l.cmd = "post_parse_setup"

\* C17: after post_parse_setup with the runtime mlx, container is false,
\* whatever it was before.
C17_MlxNoContainer ==
    (IsPostParse(last) /\ last.exc.type = "none" /\ last.args.runtime = "mlx") =>
        last.ret.container = FALSE

\* --container was set and the runtime mlx turned it off
C17_MlxFlipsContainer ==
    /\ IsPostParse(last)
    /\ last.exc.type = "none"
    /\ last.args.runtime = "mlx"
    /\ last.args.container = TRUE
    /\ last.ret.container = FALSE

IsHttpUrl(p) == p.scheme \in {S_https, S_http}

\* the inputs of the last post_parse_setup, as <<parts, input, rewritten, resolved>>
PostParsed(l) ==
    IF l.args.MODEL.kind = "str"
    THEN { <<l.args.MODEL.parts[1], l.ret.model.INITIAL_MODEL,
             l.ret.model.UNRESOLVED_MODEL, l.ret.model.MODEL>> }
    ELSE IF l.args.MODEL.kind = "list"
    THEN { <<l.args.MODEL.parts[i], l.ret.model.INITIAL_MODEL[i],
             l.ret.model.UNRESOLVED_MODEL[i], l.ret.model.MODEL[i]>>
           : i \in 1..Len(l.args.MODEL.val) }
    ELSE {}

\* C18 as stated: every http(s) URL of the host hf.co or huggingface.co goes to
\* the resolver as an hf:// reference, every one of ollama.com as an ollama://
\* reference, every other input unchanged.
C18_EveryUrlRewritten ==
    IsPostParse(last) =>
        \A m \in PostParsed(last) :
            /\ m[4] = shortnames_resolve(m[3])
            /\ IF IsHttpUrl(m[1]) /\ Lower(m[1].host) \in {S_hf_co, S_hface_co}
               THEN StartsWith(m[3], S_hf \o S_sep)
               ELSE IF IsHttpUrl(m[1]) /\ Lower(m[1].host) = S_ollama_com
               THEN StartsWith(m[3], S_ollama \o S_sep)
               ELSE m[3] = m[2]

\* what the rewrite gives for the parts of an input
RewriteOf(p) ==
    IF IsHttpUrl(p) /\ CountChar(p.path, "/") = 2 /\ Lower(p.host) \in {S_hf_co, S_hface_co}
    THEN S_hf \o S_colon \o S_slash \o p.path
    ELSE IF IsHttpUrl(p) /\ CountChar(p.path, "/") = 2 /\ Lower(p.host) = S_ollama_com
    THEN S_ollama \o S_colon \o S_slash \o p.path
    ELSE UrlOf(p)

\* C18, for the URLs whose path has two "/": an http(s) URL of the host hf.co
\* or huggingface.co with such a path goes to the resolver as hf:/ and the
\* path, one of ollama.com as ollama:/ and the path; every other input, a URL
\* of these hosts with another path among them, goes to the resolver unchanged.
C18_TwoSlashUrlRewritten ==
    IsPostParse(last) =>
        \A m \in PostParsed(last) :
            /\ m[2] = UrlOf(m[1])
            /\ m[3] = RewriteOf(m[1])
            /\ m[4] = shortnames_resolve(m[3])

\* https://HF.co:443/a/b?r=/ went to the resolver as hf://a/b
C18_HfUrlRewritten ==
    /\ IsPostParse(last)
    /\ last.args.MODEL.kind = "str"
    /\ last.args.MODEL.parts[1] = [scheme |-> S_https, host |-> S_hf_co_up, port |-> S_port443,
                                   path |-> S_slash \o S_a \o S_slash \o S_b, query |-> S_query]
    /\ last.ret.model.UNRESOLVED_MODEL = S_hf \o S_sep \o S_a \o S_slash \o S_b

\* https://huggingface.co/a/b/t went to the resolver as it was
C18_LongPathUnchanged ==
    /\ IsPostParse(last)
    /\ last.args.MODEL.kind = "str"
    /\ last.args.MODEL.parts[1] = [scheme |-> S_https, host |-> S_hface_co, port |-> <<>>,
                                   path |-> S_slash \o S_a \o S_slash \o S_b \o S_slash \o S_t,
                                   query |-> <<>>]
    /\ last.ret.model.UNRESOLVED_MODEL = last.args.MODEL.val

\* the mounts the last command hands to the engine or writes to the compose file
MountsHanded(l) ==
    IF l.cmd = "compose" THEN Range(l.ret.volumes)
    ELSE IF l.cmd = "mount_cmd" \/ IsRouter(l) THEN Range(l.plan)
    ELSE {}

ReadOnlyMount(m) == \E i \in DOMAIN m.options : m.options[i] \in {"ro", "readonly", "rw=false"}

\* C19 as stated: every model mount carries a read-only option: the OCI image
\* mount, the OCI artifact mount, the router bind mounts, the compose volumes.
C19_EveryMountReadOnly ==
    \A m \in MountsHanded(last) : ReadOnlyMount(m)

\* C19, without the artifact mount: the OCI image mount, each router bind mount
\* and each compose volume carries a read-only option; the OCI artifact mount
\* carries no option at all.
C19_MountsReadOnlyButArtifact ==
    \A m \in MountsHanded(last) :
        /\ m.type \in {"image", "bind", "volume", "artifact"}
        /\ m.type # "artifact" => ReadOnlyMount(m)
        /\ m.type = "artifact" => m.options = <<>>

\* an OCI image mounted with rw=false
C19_ImageMount ==
    /\ last.cmd = "mount_cmd"
    /\ ~last.args.artifact
    /\ last.plan[1].type = "image"
    /\ ReadOnlyMount(last.plan[1])

\* a router plan with two read-only bind mounts
C19_RouterMounts ==
    /\ IsRouter(last)
    /\ Len(last.plan) = 2
    /\ \A i \in DOMAIN last.plan : last.plan[i].type = "bind" /\ ReadOnlyMount(last.plan[i])

\* a compose file with three read-only volumes
C19_ComposeVolumes ==
    /\ last.cmd = "compose"
    /\ Len(last.ret.volumes) = 3
    /\ \A i \in DOMAIN last.ret.volumes : ReadOnlyMount(last.ret.volumes[i])

\* an OCI artifact mounted without a read-only option
C19_ArtifactMount ==
    /\ last.cmd = "mount_cmd"
    /\ last.args.artifact
    /\ ~ReadOnlyMount(last.plan[1])

IsCompose(l) == l.cmd = "compose"

DevicesEmitted(l) == { l.ret.devices[i][1] : i \in DOMAIN l.ret.devices }

\* C20: the compose service gets /dev/dri, /dev/kfd and /dev/accel only if
\* they exist on the host, and no device at all with --device none.
C20_ComposeDevices ==
    IsCompose(last) =>
        /\ DevicesEmitted(last) \subseteq last.ret.host.devs
        /\ last.args.device = <<"none">> => last.ret.devices = <<>>

\* C20 without --device: the devices of the compose service are the device
\* nodes that exist on the host, whatever --device says
C20_ComposeDevicesExist ==
    IsCompose(last) =>
        /\ DevicesEmitted(last) = last.ret.host.devs
        /\ \A i \in DOMAIN last.ret.devices : last.ret.devices[i][2] = last.ret.devices[i][1]

\* --device none and /dev/dri in the compose file
C20_DeviceNoneIgnored ==
    /\ IsCompose(last)
    /\ last.args.device = <<"none">>
    /\ "/dev/dri" \in DevicesEmitted(last)

\* an --add-to-unit value has a section, a key and a value, none of them
\* empty: the section ends at the first colon, the key at the second
UnitHasThreeParts(u) ==
    \E i, j \in 1..Len(u) :
        /\ 1 < i /\ i + 1 < j /\ j < Len(u)
        /\ u[i] = ":" /\ u[j] = ":"
        /\ \A k \in 1..(j - 1) : u[k] = ":" => k = i

\* C21: post_parse_setup with --add-to-unit goes on only if --generate is
\* given and every value has three non-empty parts SECTION:KEY:VALUE, the
\* colons after the second being part of VALUE; otherwise it ends in the usage
\* error of the parser, with exit status 2.
C21_AddToUnit ==
    (IsPostParse(last) /\ last.args.add_to_unit # <<>>) =>
        /\ last.exc.type = "none" <=>
              /\ last.args.generate
              /\ \A i \in DOMAIN last.args.add_to_unit : UnitHasThreeParts(last.args.add_to_unit[i])
        /\ last.exc.type # "none" =>
              /\ last.exc.type = "SystemExit"
              /\ last.exit.code = "2"
              /\ last.stderr # "none"

\* --generate with --add-to-unit a:a:: is accepted: the value is ":"
C21_ColonInValue ==
    /\ IsPostParse(last)
    /\ last.args.generate
    /\ last.args.add_to_unit = << <<"a", ":", "a", ":", ":">> >>
    /\ last.exc.type = "none"

\* --generate with --add-to-unit a::a ends in the usage error
C21_EmptyKey ==
    /\ IsPostParse(last)
    /\ last.args.generate
    /\ last.args.add_to_unit = << <<"a", ":", ":", "a">> >>
    /\ last.exc.type = "SystemExit"

\* the hexadecimal digest of a hash "sha256:<digest>" or "sha256-<digest>"
HexDigest(hash) == SubSeq(hash, Len(S_sha256) + 2, Len(hash))

\* the files of a ref whose blob is on disk, as indexes into its files
FilesOnDisk(e) ==
    { i \in DOMAIN e.files : <<e.root, sanitize_filename(e.files[i].hash)>> \in blobs }

IsFirstOnDisk(e, i) == i \in FilesOnDisk(e) /\ \A j \in FilesOnDisk(e) : i <= j

ReadableOf(e) == Join(S_dash, e.root \o <<e.tag>>)

\* the destination of the mount of file i of ref e in a plan
AliasesOf(e, i, plan) ==
    { plan[k].destination : k \in { n \in DOMAIN plan :
                                      plan[n].src = <<e.root, sanitize_filename(e.files[i].hash)>> } }

\* C22: in the plan of the router the first file of a ref is mounted as
\* <scheme>-<path>-<tag>.gguf, and a later file of the ref, whose alias would
\* repeat it, as <scheme>-<path>-<tag>-<first 8 hex digits of its digest>.gguf.
C22_AliasOfDigest ==
    (IsRouter(last) /\ last.args.container /\ last.exc.type = "none") =>
        \A e \in store : \A i \in FilesOnDisk(e) :
            AliasesOf(e, i, last.plan) =
                { IF IsFirstOnDisk(e, i)
                  THEN S_mnt \o ReadableOf(e) \o S_gguf
                  ELSE S_mnt \o ReadableOf(e) \o S_dash
                       \o Prefix(HexDigest(e.files[i].hash), HashPrefixLen) \o S_gguf }

\* C22 for the first file of a ref alone
C22_FirstAlias ==
    (IsRouter(last) /\ last.args.container /\ last.exc.type = "none") =>
        \A e \in store : \A i \in FilesOnDisk(e) :
            IsFirstOnDisk(e, i) => AliasesOf(e, i, last.plan) = {S_mnt \o ReadableOf(e) \o S_gguf}

\* what the code gives a later file: the first 8 characters of the hash, the
\* "sha256" and its separator among them
C22_AliasOfHashString ==
    (IsRouter(last) /\ last.args.container /\ last.exc.type = "none") =>
        \A e \in store : \A i \in FilesOnDisk(e) :
            ~IsFirstOnDisk(e, i) =>
                AliasesOf(e, i, last.plan) =
                    { S_mnt \o ReadableOf(e) \o S_dash
                      \o Prefix(e.files[i].hash, HashPrefixLen) \o S_gguf }

IsParseArgs(l) == l.cmd = "parse_args"

\* the versioned image is in the engine's storage after accel_image
VersionedAvailable(l) ==
    /\ l.args.config.engine
    /\ \/ l.args.host.local
       \/ /\ \E i \in DOMAIN l.ret.log : l.ret.log[i] = "pull"
          /\ l.args.host.registry

\* C23: accel_image returns an image with a tag or a digest as it is, whether
\* the configuration, the environment or the table of defaults gave it; an
\* image of the table without tag gets :latest when the versioned image is
\* not available.
C23_AccelImage ==
    IsParseArgs(last) =>
        LET c == last.args.config IN
        /\ (c.source # "none" /\ c.suffix # <<>>) => last.ret.image = S_image \o c.suffix
        /\ (c.source = "none" /\ c.table_suffix # <<>>) =>
              last.ret.image = S_image \o c.table_suffix
        /\ (c.source = "none" /\ c.table_suffix = <<>> /\ ~VersionedAvailable(last)) =>
              last.ret.image = S_image \o S_colon \o S_latest

\* an image with a digest set by the environment is returned as it is
C23_EnvDigest ==
    /\ IsParseArgs(last)
    /\ last.args.config.source = "env"
    /\ last.args.config.suffix = S_digest
    /\ last.ret.image = S_image \o S_digest

\* the default image without tag got :latest after a pull that failed
C23_LatestAfterFailedPull ==
    /\ IsParseArgs(last)
    /\ last.args.config.source = "none"
    /\ last.args.config.table_suffix = <<>>
    /\ last.ret.log = <<"inspect", "pull">>
    /\ last.args.host.version # <<"0">>
    /\ last.ret.image = S_image \o S_colon \o S_latest

PullRan(l) == \E i \in DOMAIN l.ret.log : l.ret.log[i] = "pull"

\* C29: with --dryrun, --dry-run or --generate on the command line, the
\* selection of the runtime image runs no engine pull: it inspects at most,
\* and the image is the versioned one or :latest.
C29_NoPullOnDryrun ==
    (IsParseArgs(last) /\ last.args.argv # {}) =>
        /\ ~PullRan(last)
        /\ \A i \in DOMAIN last.ret.log : last.ret.log[i] = "inspect"

\* C29 for --dryrun and --dry-run alone
C29_NoPullOnDryrunFlag ==
    (IsParseArgs(last) /\ last.args.argv \cap {"--dryrun", "--dry-run"} # {}) =>
        /\ ~PullRan(last)
        /\ \A i \in DOMAIN last.ret.log : last.ret.log[i] = "inspect"

\* --generate alone and a pull
C29_PullOnGenerate ==
    /\ IsParseArgs(last)
    /\ last.args.argv = {"--generate"}
    /\ PullRan(last)

IsPopulate(l) == l.cmd = "populate_volume"

\* the export and the untar process ran
PipeRan(l) == l.ret.created /\ l.args.popen = "ok"

ModelExists(m) ==
    IF m.kind = "oci"
    THEN \E k \in {"image", "artifact"} : EngState(engine, m.model, k) # "absent"
    ELSE \E e \in store : CanonicalRef(e) = m.model

\* C25: in serve MODEL the port is the first step; the transport is handed to
\* serve only as the step after an ensure_model_exists that returned without
\* error for it, so the model is there; and when the try block ends with an
\* error that is no KeyError, that error leaves serve_cli and nothing is served.
C25_ServeAfterEnsure ==
    IsServeModel(last) =>
        /\ last.steps # <<>> /\ last.steps[1] = "port"
        /\ \A i \in DOMAIN last.steps : last.steps[i] = "port" => i = 1
        /\ \A i \in DOMAIN last.steps :
              last.steps[i] = "serve" =>
                  /\ i = Len(last.steps) /\ i > 1
                  /\ last.steps[i - 1] \in {"ensure", "ensure_oci"}
                  /\ last.exc.type = "none"
                  /\ Len(last.served) = 1
                  /\ ModelExists(last.served[1])
                  /\ last.steps[i - 1] = "ensure" =>
                        last.served[1] = New(last.args.MODEL, last.args)
                  /\ last.steps[i - 1] = "ensure_oci" =>
                        last.served[1].model = OCI_init(last.args.MODEL, TRUE).model
        /\ last.served # <<>> => "serve" \in Range(last.steps)
        /\ (last.tryexc.type # "none" /\ ~IsA(last.tryexc.type, "KeyError")) =>
              /\ last.exc = last.tryexc
              /\ last.served = <<>>
              /\ "serve" \notin Range(last.steps)

\* a model that ensure_model_exists found or pulled, then served
C25_EnsuredThenServed ==
    /\ IsServeModel(last)
    /\ last.steps = <<"port", "New", "ensure", "serve">>
    /\ last.served = <<New(last.args.MODEL, last.args)>>
    /\ ModelExists(last.served[1])

\* a pull that failed with an error of the network: nothing served
C25_PullFailed ==
    /\ IsServeModel(last)
    /\ last.tryexc.type = "ConnectionError"
    /\ last.exc.type = "ConnectionError"
    /\ last.served = <<>>

\* C26: a rm of several named models attempts every one of them, also after a
\* model whose removal failed, and reports the errors after the last one.
C26_EveryModelAttempted ==
    IsRmNamed(last) =>
        /\ Len(last.tried) = Len(last.args.MODEL)
        /\ \A i \in DOMAIN last.tried : last.tried[i].model = last.args.MODEL[i]

\* C26 for the failures that _rm_model collects: a run none of whose attempts
\* left the loop attempted every model, and its error is that of the first
\* collected failure, the later ones being written to stderr
C26_CollectedFailures ==
    (IsRmNamed(last) /\ \A i \in DOMAIN last.tried : last.tried[i].how # "raise") =>
        /\ Len(last.tried) = Len(last.args.MODEL)
        /\ \A i \in DOMAIN last.tried : last.tried[i].model = last.args.MODEL[i]
        /\ Cardinality({ i \in DOMAIN last.tried : last.tried[i].how = "append" })
              = Len(last.stderr) + (IF last.exc.type = "none" THEN 0 ELSE 1)

\* a rm of two models whose first failed and whose second was removed
C26_FirstFailsSecondRemoved ==
    /\ IsRmNamed(last)
    /\ Len(last.args.MODEL) = 2
    /\ Len(last.tried) = 2
    /\ last.tried[1].how = "append"
    /\ last.tried[2].removed
    /\ last.exc.type # "none"

\* a rm of two models that ended at the first one
C26_StoppedAtFirst ==
    /\ IsRmNamed(last)
    /\ Len(last.args.MODEL) = 2
    /\ Len(last.tried) = 1

Happened(l, event) == \E i \in DOMAIN l.events : l.events[i] = event

\* C27, the second half: a run whose documents are all blank or unconverted
\* fails with "No documents were successfully converted" (ValueError) and
\* neither embeds anything nor builds an image
C27_NoDocsFails ==
    (IsRag(last) /\ Happened(last, "check_docs") /\ last.docs = <<>>) =>
        /\ last.exc.type = "ValueError" \/ last.cleanup = "interrupted"
        /\ ~Happened(last, "embed")
        /\ ~Happened(last, "build")

\* C27: when the RAG pipeline reaches the embedding and storage step the chunk
\* list is not empty, so the embedding dimension is known when the collection
\* is created; a run without usable content fails with "No documents were
\* successfully converted" before anything is embedded or built.
C27_ChunksAtEmbedding ==
    /\ (IsRag(last) /\ Happened(last, "embed")) =>
          /\ last.chunks # <<>>
          /\ last.exc.type # "RuntimeError"
    /\ C27_NoDocsFails

\* a run whose only document is a heading without a body reached the
\* embedding step with no chunk
C27_HeadingOnly ==
    /\ IsRag(last)
    /\ last.args.text_files = << <<"#", "\n">> >>
    /\ last.args.vlm_files = <<>>
    /\ Happened(last, "embed")
    /\ last.chunks = <<>>
    /\ last.exc.type = "RuntimeError"

\* a run whose only text file is blank failed before the embedding step
C27_BlankFile ==
    /\ IsRag(last)
    /\ last.args.text_files = << <<" ", "\n">> >>
    /\ last.exc.type = "ValueError"
    /\ ~Happened(last, "embed")

\* the position of the first occurrence of the event, 0 when it did not happen
FirstEvent(l, event) ==
    IF Happened(l, event)
    THEN CHOOSE i \in DOMAIN l.events :
            l.events[i] = event /\ \A j \in 1..(i - 1) : l.events[j] # event
    ELSE 0

\* the first event happened, and before every occurrence of the second
Before(l, first, second) ==
    /\ Happened(l, first)
    /\ FirstEvent(l, first) < FirstEvent(l, second)

\* C28: the Docling model is pulled and its server started only if a PDF or
\* image file was found; the embedding server is started only after the
\* Docling server, when needed, reported healthy; a file is converted only
\* after the Docling server reported healthy and chunks are embedded only
\* after the embedding server reported healthy.
C28_ServerOrder ==
    IsRag(last) =>
        /\ (Happened(last, "pull_docling") \/ Happened(last, "start_docling")
              \/ "docling" \in last.started) => Len(last.args.vlm_files) > 0
        /\ (Happened(last, "start_docling") => Before(last, "pull_docling", "start_docling"))
        /\ (Happened(last, "start_embed") /\ Len(last.args.vlm_files) > 0)
              => Before(last, "healthy_docling", "start_embed")
        /\ (Happened(last, "convert") => Before(last, "healthy_docling", "convert"))
        /\ (Happened(last, "embed") => Before(last, "healthy_embed", "embed"))

\* a run with a PDF or image file that started both servers, converted the
\* file and embedded the chunks
C28_VlmRun ==
    /\ IsRag(last)
    /\ Len(last.args.vlm_files) > 0
    /\ last.started = {"docling", "embed"}
    /\ Happened(last, "convert")
    /\ Happened(last, "embed")

\* a run with text files alone that embedded chunks without a Docling server
C28_TextRun ==
    /\ IsRag(last)
    /\ Len(last.args.vlm_files) = 0
    /\ last.started = {"embed"}
    /\ Happened(last, "embed")
    /\ ~Happened(last, "pull_docling")

IsParsePort(l) == l.cmd = "parse_port_option"

\* C30: parse_port_option returns the option unchanged for every integer from
\* 1 to 65535 and raises ValueError for every other integer.
C30_ValidPorts ==
    (IsParsePort(last) /\ last.args.integer) =>
        IF last.args.number \in 1..65535
        THEN last.exc.type = "none" /\ last.ret = last.args.option
        ELSE last.exc.type = "ValueError"

\* C30 for the integers from 1 to 65534: the option is returned unchanged, and
\* every integer outside 1..65535 raises ValueError
C30_ValidPortsBelowLimit ==
    (IsParsePort(last) /\ last.args.integer /\ last.args.number # 65535) =>
        IF last.args.number \in 1..65534
        THEN last.exc.type = "none" /\ last.ret = last.args.option
        ELSE last.exc.type = "ValueError"

\* --port 65535 was refused
C30_LimitRefused ==
    /\ IsParsePort(last)
    /\ last.args.option = <<"6", "5", "5", "3", "5">>
    /\ last.exc.type = "ValueError"

\* --port 65534 was accepted
C30_BelowLimitAccepted ==
    /\ IsParsePort(last)
    /\ last.args.number = 65534
    /\ last.ret = <<"6", "5", "5", "3", "4">>
    /\ last.exc.type = "none"

====
